---- MODULE Spec2Model ----
(***************************************************************************)
(* Marketing analytics team: the LangGraph workflow of teams.py (the       *)
(* supervisor, the SQL plan-and-execute pipeline with its clarification    *)
(* requests, the data-viz, segmentation, product and email nodes) as a     *)
(* state machine over the shared AgentState.                               *)
(*                                                                         *)
(* Texts (requests, LLM responses, SQL) are sequences of one-character     *)
(* strings, so that the keyword scans, upper(), strip(), replace() and the *)
(* regular-expression search of the source are computed as Python does.    *)
(* Optional values: None is <<>> and a present value v is <<v>>.           *)
(***************************************************************************)
EXTENDS Integers, Sequences, FiniteSets, TLC

VARIABLES
  pc,      \* the graph node that runs next: "idle", a node name, or "end"
  state,   \* the AgentState record threaded through the nodes
  events,  \* history of the turn: nodes run, LLM calls, validations, executions
  session  \* the caller's st.session_state: recorded history and stored clarification

vars == <<pc, state, events, session>>

None == <<>>
Some(v) == <<v>>

\* ---------------------------------------------------------------- text

\* The character ` as an element of a text (a TLA+ string cannot hold it).
backtick == "BACKTICK"

Lowers ==
  <<"a","b","c","d","e","f","g","h","i","j","k","l","m","n","o","p","q","r","s","t","u","v","w","x","y","z">>
Uppers ==
  <<"A","B","C","D","E","F","G","H","I","J","K","L","M","N","O","P","Q","R","S","T","U","V","W","X","Y","Z">>

upper_map == [c \in {Lowers[i] : i \in 1..26} |-> Uppers[CHOOSE i \in 1..26 : Lowers[i] = c]]
lower_map == [c \in {Uppers[i] : i \in 1..26} |-> Lowers[CHOOSE i \in 1..26 : Uppers[i] = c]]

\* str.upper() and str.lower()
str_upper(t) == [i \in 1..Len(t) |-> IF t[i] \in DOMAIN upper_map THEN upper_map[t[i]] ELSE t[i]]
str_lower(t) == [i \in 1..Len(t) |-> IF t[i] \in DOMAIN lower_map THEN lower_map[t[i]] ELSE t[i]]

\* p occurs in t at position i
str_at(t, p, i) == i >= 1 /\ i + Len(p) - 1 <= Len(t) /\ \A j \in 1..Len(p) : t[i + j - 1] = p[j]

\* Python's `p in t` on strings
str_in(p, t) == \E i \in 1..(Len(t) - Len(p) + 1) : str_at(t, p, i)

\* any(kw in t for kw in kws)
any_in(kws, t) == \E k \in 1..Len(kws) : str_in(kws[k], t)

\* first position >= i where p occurs in t, 0 if none
str_find(t, p, i) ==
  LET hits == {k \in i..(Len(t) - Len(p) + 1) : str_at(t, p, k)}
  IN IF hits = {} THEN 0 ELSE CHOOSE k \in hits : \A h \in hits : k <= h

\* str.count(p): non-overlapping occurrences, left to right
RECURSIVE str_count_from(_, _, _)
str_count_from(t, p, i) ==
  LET k == str_find(t, p, i)
  IN IF k = 0 THEN 0 ELSE 1 + str_count_from(t, p, k + Len(p))
str_count(t, p) == str_count_from(t, p, 1)

str_startswith(t, p) == str_at(t, p, 1)

Whitespace == {" ", "\n", "\t"}

\* str.strip()
str_strip(t) ==
  LET keep == {i \in 1..Len(t) : t[i] \notin Whitespace}
  IN IF keep = {} THEN <<>>
     ELSE SubSeq(t, CHOOSE i \in keep : \A k \in keep : i <= k,
                    CHOOSE i \in keep : \A k \in keep : i >= k)

\* str.replace(p, r): every non-overlapping occurrence, left to right
RECURSIVE str_replace_from(_, _, _, _)
str_replace_from(t, p, r, i) ==
  LET k == str_find(t, p, i)
  IN IF k = 0 THEN SubSeq(t, i, Len(t))
     ELSE SubSeq(t, i, k - 1) \o r \o str_replace_from(t, p, r, k + Len(p))
str_replace(t, p, r) == str_replace_from(t, p, r, 1)

\* str.split(sep)[0]
str_split_first(t, sep) ==
  LET k == str_find(t, sep, 1)
  IN IF k = 0 THEN t ELSE SubSeq(t, 1, k - 1)

\* ------------------------------------------------------- keyword lists
\* supervisor.py: the data-need trigger words
needs_sql_keywords ==
  << <<"t","o","p">>,
     <<"s","h","o","w">>,
     <<"l","i","s","t">>,
     <<"f","i","n","d">>,
     <<"g","e","t">>,
     <<"c","o","u","n","t">>,
     <<"h","o","w"," ","m","a","n","y">>,
     <<"c","u","s","t","o","m","e","r">> >>
\* supervisor.py: the visualization trigger words
needs_viz_keywords ==
  << <<"c","h","a","r","t">>,
     <<"p","i","e">>,
     <<"b","a","r">>,
     <<"g","r","a","p","h">>,
     <<"p","l","o","t">>,
     <<"d","i","s","t","r","i","b","u","t","i","o","n">>,
     <<"b","r","e","a","k","d","o","w","n">>,
     <<"v","i","s","u","a","l","i","z">>,
     <<"d","e","m","o","g","r","a","p","h","i","c">>,
     <<"c","h","a","r","a","c","t","e","r","i","s","t","i","c">>,
     <<"a","n","a","l","y","s","i","s">>,
     <<"i","n","s","i","g","h","t">> >>
kw_email ==
  <<"e","m","a","i","l">>
kw_learning_labs ==
  <<"l","e","a","r","n","i","n","g"," ","l","a","b","s">>
\* supervisor.py: the strategy trigger words
needs_strategy_keywords ==
  << <<"s","t","r","a","t","e","g","y">>,
     <<"r","e","c","o","m","m","e","n","d">>,
     <<"a","p","p","r","o","a","c","h">>,
     <<"h","o","w"," ","t","o">>,
     <<"m","a","r","k","e","t","i","n","g"," ","p","l","a","n">>,
     <<"r","e","-","e","n","g","a","g","e">> >>
\* sql_agent.py: the pipeline's own visualization words
sql_viz_words ==
  << <<"c","h","a","r","t">>,
     <<"p","i","e">>,
     <<"b","a","r">>,
     <<"g","r","a","p","h">>,
     <<"p","l","o","t">>,
     <<"v","i","s","u","a","l","i","z">>,
     <<"d","i","s","t","r","i","b","u","t","i","o","n">> >>
web_indicators ==
  << <<"b","a","s","e","d"," ","o","n"," ","t","h","e"," ","w","e","b">>,
     <<"a","c","c","o","r","d","i","n","g"," ","t","o">>,
     <<"s","e","a","r","c","h"," ","r","e","s","u","l","t","s">>,
     <<"i"," ","f","o","u","n","d">>,
     <<"f","r","o","m"," ","t","h","e"," ","w","e","b">>,
     <<"o","n","l","i","n","e"," ","s","o","u","r","c","e","s">>,
     <<"w","i","k","i","p","e","d","i","a">>,
     <<"g","o","o","g","l","e">>,
     <<"b","a","s","e","d"," ","o","n"," ","m","y"," ","s","e","a","r","c","h">> >>
gaming_indicators ==
  << <<"l","e","a","g","u","e"," ","o","f"," ","l","e","g","e","n","d","s">>,
     <<"l","o","l"," ","c","h","a","m","p","i","o","n","s">>,
     <<"e","s","p","o","r","t","s">>,
     <<"g","a","m","e">>,
     <<"p","l","a","y","e","r">>,
     <<"t","e","a","m">>,
     <<"t","o","u","r","n","a","m","e","n","t">>,
     <<"s","p","o","r","t","s">> >>
sql_keywords ==
  << <<"S","E","L","E","C","T">>,
     <<"F","R","O","M">>,
     <<"C","A","N","N","O","T","_","A","N","S","W","E","R">> >>
kw_CANNOT_ANSWER ==
  <<"C","A","N","N","O","T","_","A","N","S","W","E","R">>
kw_WITH ==
  <<"W","I","T","H"," ">>
kw_AS ==
  <<" ","A","S"," ">>
kw_SELECT ==
  <<"S","E","L","E","C","T">>
kw_JOIN ==
  <<"J","O","I","N">>
kw_leadscored ==
  <<"l","e","a","d","s","c","o","r","e","d">>
kw_semicolon ==
  <<";">>
fence_sql ==
  <<backtick,backtick,backtick,"s","q","l">>
fence ==
  <<backtick,backtick,backtick>>
kw_pie ==
  <<"p","i","e">>
kw_bar ==
  <<"b","a","r">>
\* dataviz_agent.py: the chart request words
chart_words ==
  << <<"c","h","a","r","t">>,
     <<"g","r","a","p","h">>,
     <<"p","l","o","t">>,
     <<"d","i","s","t","r","i","b","u","t","i","o","n">>,
     <<"b","r","e","a","k","d","o","w","n">>,
     <<"v","i","s","u","a","l","i","z">> >>
clarified_prefix ==
  <<" ","(","U","s","e","r"," ","c","l","a","r","i","f","i","e","d",":"," ">>
clarified_suffix ==
  <<")">>

\* ------------------------------------------------ clarification options
options_gaming ==
  << <<"C","h","a","m","p","i","o","n","s"," ","c","u","s","t","o","m","e","r"," ","s","e","g","m","e","n","t">>,
     <<"S","o","m","e","t","h","i","n","g"," ","e","l","s","e"," ","-"," ","l","e","t"," ","m","e"," ","r","e","p","h","r","a","s","e">> >>
options_web ==
  << <<"S","h","o","w"," ","s","e","g","m","e","n","t"," ","d","i","s","t","r","i","b","u","t","i","o","n">>,
     <<"L","i","s","t"," ","t","o","p"," ","c","u","s","t","o","m","e","r","s">>,
     <<"L","e","t"," ","m","e"," ","r","e","p","h","r","a","s","e">> >>
options_not_sql ==
  << <<"S","h","o","w"," ","a","l","l"," ","s","e","g","m","e","n","t","s">>,
     <<"S","h","o","w"," ","t","o","p"," ","c","u","s","t","o","m","e","r","s">>,
     <<"C","a","n","c","e","l">> >>
options_generate ==
  << <<"S","h","o","w"," ","s","e","g","m","e","n","t"," ","c","o","u","n","t","s">>,
     <<"S","h","o","w"," ","t","o","p"," ","2","0"," ","C","h","a","m","p","i","o","n","s">>,
     <<"S","h","o","w"," ","l","e","a","d"," ","s","o","u","r","c","e","s">> >>
options_validation ==
  << <<"S","h","o","w"," ","a","l","l"," ","s","e","g","m","e","n","t","s">>,
     <<"S","h","o","w"," ","t","o","p"," ","1","0"," ","c","u","s","t","o","m","e","r","s">>,
     <<"C","a","n","c","e","l">> >>
options_execution ==
  << <<"S","h","o","w"," ","s","e","g","m","e","n","t"," ","c","o","u","n","t","s">>,
     <<"S","h","o","w"," ","t","o","p"," ","c","u","s","t","o","m","e","r","s">>,
     <<"C","a","n","c","e","l">> >>

\* ------------------------------------------------------------ inputs
\* One request for every combination of the supervisor's five intent flags.
IntentRequests ==
  { <<"h","e","l","l","o">>,
    <<"s","t","r","a","t","e","g","y">>,
    <<"l","e","a","r","n","i","n","g"," ","l","a","b","s">>,
    <<"l","e","a","r","n","i","n","g"," ","l","a","b","s"," ","s","t","r","a","t","e","g","y">>,
    <<"e","m","a","i","l">>,
    <<"e","m","a","i","l"," ","s","t","r","a","t","e","g","y">>,
    <<"e","m","a","i","l"," ","l","e","a","r","n","i","n","g"," ","l","a","b","s">>,
    <<"e","m","a","i","l"," ","l","e","a","r","n","i","n","g"," ","l","a","b","s"," ","s","t","r","a","t","e","g","y">>,
    <<"c","h","a","r","t">>,
    <<"c","h","a","r","t"," ","s","t","r","a","t","e","g","y">>,
    <<"c","h","a","r","t"," ","l","e","a","r","n","i","n","g"," ","l","a","b","s">>,
    <<"c","h","a","r","t"," ","l","e","a","r","n","i","n","g"," ","l","a","b","s"," ","s","t","r","a","t","e","g","y">>,
    <<"c","h","a","r","t"," ","e","m","a","i","l">>,
    <<"c","h","a","r","t"," ","e","m","a","i","l"," ","s","t","r","a","t","e","g","y">>,
    <<"c","h","a","r","t"," ","e","m","a","i","l"," ","l","e","a","r","n","i","n","g"," ","l","a","b","s">>,
    <<"c","h","a","r","t"," ","e","m","a","i","l"," ","l","e","a","r","n","i","n","g"," ","l","a","b","s"," ","s","t","r","a","t","e","g","y">>,
    <<"s","h","o","w">>,
    <<"s","h","o","w"," ","s","t","r","a","t","e","g","y">>,
    <<"s","h","o","w"," ","l","e","a","r","n","i","n","g"," ","l","a","b","s">>,
    <<"s","h","o","w"," ","l","e","a","r","n","i","n","g"," ","l","a","b","s"," ","s","t","r","a","t","e","g","y">>,
    <<"s","h","o","w"," ","e","m","a","i","l">>,
    <<"s","h","o","w"," ","e","m","a","i","l"," ","s","t","r","a","t","e","g","y">>,
    <<"s","h","o","w"," ","e","m","a","i","l"," ","l","e","a","r","n","i","n","g"," ","l","a","b","s">>,
    <<"s","h","o","w"," ","e","m","a","i","l"," ","l","e","a","r","n","i","n","g"," ","l","a","b","s"," ","s","t","r","a","t","e","g","y">>,
    <<"s","h","o","w"," ","c","h","a","r","t">>,
    <<"s","h","o","w"," ","c","h","a","r","t"," ","s","t","r","a","t","e","g","y">>,
    <<"s","h","o","w"," ","c","h","a","r","t"," ","l","e","a","r","n","i","n","g"," ","l","a","b","s">>,
    <<"s","h","o","w"," ","c","h","a","r","t"," ","l","e","a","r","n","i","n","g"," ","l","a","b","s"," ","s","t","r","a","t","e","g","y">>,
    <<"s","h","o","w"," ","c","h","a","r","t"," ","e","m","a","i","l">>,
    <<"s","h","o","w"," ","c","h","a","r","t"," ","e","m","a","i","l"," ","s","t","r","a","t","e","g","y">>,
    <<"s","h","o","w"," ","c","h","a","r","t"," ","e","m","a","i","l"," ","l","e","a","r","n","i","n","g"," ","l","a","b","s">>,
    <<"s","h","o","w"," ","c","h","a","r","t"," ","e","m","a","i","l"," ","l","e","a","r","n","i","n","g"," ","l","a","b","s"," ","s","t","r","a","t","e","g","y">> }
\* spec.md section 8: the end-to-end scenario's request
request_breakdown ==
  <<"T","o","p"," ","1","0"," ","c","o","n","v","e","r","t","e","d"," ","l","e","a","d","s"," ","a","n","d"," ","t","h","e","i","r"," ","L","e","a","d"," ","S","o","u","r","c","e"," ","b","r","e","a","k","d","o","w","n">>
\* a visualization word of the supervisor that is no word of the pipeline or of the chart scan
request_analysis ==
  <<"a","n","a","l","y","s","i","s">>
\* requests that name a chart kind without any other chart word
request_pie ==
  <<"s","h","o","w"," ","s","e","g","m","e","n","t"," ","p","i","e">>
request_bar ==
  <<"s","h","o","w"," ","s","e","g","m","e","n","t"," ","b","a","r">>
plan_ok ==
  <<"S","e","l","e","c","t"," ","S","e","g","m","e","n","t"," ","a","n","d"," ","c","o","u","n","t"," ","t","h","e"," ","r","o","w","s"," ","o","f"," ","l","e","a","d","s","c","o","r","e","d"," ","g","r","o","u","p","e","d"," ","b","y"," ","S","e","g","m","e","n","t",".">>
plan_short ==
  <<"C","o","u","n","t"," ","t","h","e"," ","l","e","a","d","s"," ","p","e","r"," ","c","o","u","n","t","r","y",".">>
plan_web ==
  <<"A","c","c","o","r","d","i","n","g"," ","t","o"," ","r","e","c","e","n","t"," ","s","e","a","r","c","h"," ","r","e","s","u","l","t","s",","," ","C","h","a","m","p","i","o","n","s"," ","a","r","e"," ","t","h","e"," ","t","o","p"," ","c","u","s","t","o","m","e","r","s",".">>
plan_gaming ==
  <<"C","h","a","m","p","i","o","n","s"," ","a","r","e"," ","t","h","e"," ","b","e","s","t"," ","p","l","a","y","e","r","s"," ","o","f"," ","t","h","e"," ","t","o","u","r","n","a","m","e","n","t",".">>
plan_web_gaming ==
  <<"A","c","c","o","r","d","i","n","g"," ","t","o"," ","t","h","e"," ","g","a","m","e"," ","w","i","k","i",","," ","C","h","a","m","p","i","o","n","s"," ","w","i","n"," ","t","o","u","r","n","a","m","e","n","t","s",".">>
plan_long ==
  <<"I"," ","a","m"," ","n","o","t"," ","a","b","l","e"," ","t","o"," ","h","e","l","p"," ","w","i","t","h"," ","t","h","a","t"," ","q","u","e","s","t","i","o","n"," ","b","e","c","a","u","s","e"," ","i","t"," ","i","s"," ","a","b","o","u","t"," ","t","h","e"," ","w","e","a","t","h","e","r"," ","a","n","d"," ","n","o","t"," ","a","b","o","u","t"," ","o","u","r"," ","m","a","r","k","e","t","i","n","g"," ","l","e","a","d","s"," ","a","t"," ","a","l","l",".">>
plan_cannot ==
  <<"C","A","N","N","O","T","_","A","N","S","W","E","R",":"," ","t","h","e","r","e"," ","i","s"," ","n","o"," ","r","e","v","e","n","u","e"," ","c","o","l","u","m","n",".">>
plan_cannot_gaming ==
  <<"c","a","n","n","o","t","_","a","n","s","w","e","r",":"," ","t","h","e","r","e"," ","i","s"," ","n","o"," ","p","l","a","y","e","r"," ","c","o","l","u","m","n",".">>
PlanResponses ==
  {plan_ok, plan_short, plan_web, plan_gaming, plan_web_gaming, plan_long, plan_cannot, plan_cannot_gaming}
sql_simple ==
  <<"S","E","L","E","C","T"," ","*"," ","F","R","O","M"," ","l","e","a","d","s","c","o","r","e","d",";">>
sql_grouped ==
  <<"S","E","L","E","C","T"," ","S","e","g","m","e","n","t",","," ","C","O","U","N","T","(","*",")"," ","F","R","O","M"," ","l","e","a","d","s","c","o","r","e","d"," ","G","R","O","U","P"," ","B","Y"," ","S","e","g","m","e","n","t"," ","O","R","D","E","R"," ","B","Y"," ","C","O","U","N","T","(","*",")"," ","D","E","S","C">>
sql_cte ==
  <<"W","I","T","H"," ","x"," ","A","S"," ","(","S","E","L","E","C","T"," ","1",")"," ","S","E","L","E","C","T"," ","*"," ","F","R","O","M"," ","l","e","a","d","s","c","o","r","e","d">>
sql_subquery ==
  <<"S","E","L","E","C","T"," ","*"," ","F","R","O","M"," ","a"," ","W","H","E","R","E"," ","i","d"," ","I","N"," ","(","S","E","L","E","C","T"," ","i","d"," ","F","R","O","M"," ","a",")">>
sql_join ==
  <<"S","E","L","E","C","T"," ","*"," ","F","R","O","M"," ","l","e","a","d","s","c","o","r","e","d"," ","J","O","I","N"," ","o","t","h","e","r"," ","O","N"," ","1","=","1">>
sql_other_table ==
  <<"s","e","l","e","c","t"," ","*"," ","f","r","o","m"," ","o","t","h","e","r",";">>
sql_delete ==
  <<"D","E","L","E","T","E"," ","F","R","O","M"," ","l","e","a","d","s","c","o","r","e","d">>
sql_fenced ==
  <<backtick,backtick,backtick,"s","q","l","\n","S","E","L","E","C","T"," ","*"," ","F","R","O","M"," ","l","e","a","d","s","c","o","r","e","d","\n",backtick,backtick,backtick>>
sql_prose ==
  <<"H","e","r","e"," ","i","s"," ","t","h","e"," ","q","u","e","r","y",":"," ","S","E","L","E","C","T"," ","C","o","u","n","t","r","y"," ","F","R","O","M"," ","l","e","a","d","s","c","o","r","e","d",";"," ","I"," ","h","o","p","e"," ","i","t"," ","h","e","l","p","s">>
sql_gaming ==
  <<"S","E","L","E","C","T"," ","p","l","a","y","e","r"," ","F","R","O","M"," ","l","e","a","d","s","c","o","r","e","d">>
sql_cte_values ==
  <<"W","I","T","H"," ","x"," ","A","S","(","V","A","L","U","E","S","(","1",")",")"," ","S","E","L","E","C","T"," ","*"," ","F","R","O","M"," ","l","e","a","d","s","c","o","r","e","d">>
sql_joined_column ==
  <<"S","E","L","E","C","T"," ","j","o","i","n","e","d"," ","F","R","O","M"," ","l","e","a","d","s","c","o","r","e","d">>
sql_web ==
  <<"A","c","c","o","r","d","i","n","g"," ","t","o"," ","t","h","e"," ","s","c","h","e","m","a",":"," ","S","E","L","E","C","T"," ","*"," ","F","R","O","M"," ","l","e","a","d","s","c","o","r","e","d",";">>
SqlResponses ==
  {sql_simple, sql_grouped, sql_cte, sql_subquery, sql_join, sql_other_table, sql_delete, sql_fenced, sql_prose, sql_gaming, sql_cte_values, sql_joined_column, sql_web}
generic_response ==
  <<"g","e","n","e","r","a","t","e","d"," ","t","e","x","t">>

\* The rows a query can return: the column names, the text-typed columns and
\* the number of rows (a data frame of the leadscored table).
DataFrames ==
  { [columns |-> <<"Segment", "count">>, str_cols |-> <<"Segment">>, nrows |-> 5],
    [columns |-> <<"customer_id", "Lead_Source", "Converted">>, str_cols |-> <<"Lead_Source">>, nrows |-> 20],
    [columns |-> <<"customer_id", "engagement_score">>, str_cols |-> <<>>, nrows |-> 2],
    [columns |-> <<"Segment">>, str_cols |-> <<"Segment">>, nrows |-> 0],
    [columns |-> <<"Country", "Segment", "count">>, str_cols |-> <<"Country", "Segment">>, nrows |-> 6] }

\* What pd.read_sql does with a query: it raises, or it returns a data frame.
DbResults ==
  {[raises |-> TRUE, df |-> None]} \cup {[raises |-> FALSE, df |-> Some(d)] : d \in DataFrames}

Requests == IntentRequests \cup {request_breakdown, request_analysis, request_pie, request_bar}

\* Every option a clarification request of the SQL agent offers.
AllOptions ==
  UNION { {options[i] : i \in 1..Len(options)} :
          options \in {options_gaming, options_web, options_not_sql, options_generate,
                       options_validation, options_execution} }

\* The clarification answers a caller passes to run_team_query.
Clarifications == {None, Some(options_web[1]), Some(options_not_sql[3])}

\* ------------------------------------------------------------ messages

HumanMessage(content) ==
  [type |-> "human", tag |-> "", kind |-> "request", parts |-> <<content>>, nums |-> <<>>, note |-> "",
   chart |-> None]

\* An AIMessage: the agent's tag, which of the agent's texts it is, the texts and
\* numbers put into it, the error message it quotes, and the chart payload after
\* the <!--CHART: marker, if any.
AIMessage(tag, kind, parts, nums, note) ==
  [type |-> "ai", tag |-> tag, kind |-> kind, parts |-> parts, nums |-> nums, note |-> note,
   chart |-> None]

in_list(x, xs) == \E i \in 1..Len(xs) : xs[i] = x

\* for msg in messages: if isinstance(msg, HumanMessage): ...; break
first_human(messages) ==
  LET hs == {i \in 1..Len(messages) : messages[i].type = "human"}
  IN IF hs = {} THEN <<>> ELSE messages[CHOOSE i \in hs : \A k \in hs : i <= k].parts[1]

\* for msg in reversed(messages): if isinstance(msg, HumanMessage): ...; break
last_human(messages) ==
  LET hs == {i \in 1..Len(messages) : messages[i].type = "human"}
  IN IF hs = {} THEN <<>> ELSE messages[CHOOSE i \in hs : \A k \in hs : i >= k].parts[1]

\* A node's returned dict merged into the state: `messages` has the add_messages
\* reducer (the new messages are appended), every other key is overwritten.
apply_update(s, u) ==
  [k \in DOMAIN s |->
     IF k \in DOMAIN u
     THEN IF k = "messages" THEN s[k] \o u[k] ELSE u[k]
     ELSE s[k]]

Event(ev, name, text, ok) == [ev |-> ev, name |-> name, text |-> text, ok |-> ok]

\* -------------------------------------------------------------- teams.py

initial_state(user_message, user_clarification) ==
  [ messages |-> <<HumanMessage(user_message)>>,
    next_agent |-> None,
    leads_data |-> None,
    product_info |-> None,
    segment_analysis |-> None,
    email_draft |-> None,
    sql_plan |-> None,
    sql_query |-> None,
    sql_validation_error |-> None,
    needs_visualization |-> FALSE,
    needs_clarification |-> FALSE,
    clarification_question |-> None,
    clarification_options |-> None,
    user_clarification |-> user_clarification,
    is_complete |-> FALSE,
    current_step |-> 0,
    completed_agents |-> <<>> ]

StepCeiling == 8

\* Faulty variant of route_from_supervisor: the step ceiling is not checked.
route_without_ceiling(s) ==
  IF s.next_agent = Some("SQL_AGENT") THEN "sql_agent"
  ELSE IF s.next_agent = Some("DATAVIZ_AGENT") THEN "dataviz_agent"
  ELSE IF s.next_agent = Some("SEGMENTATION_AGENT") THEN "segmentation_agent"
  ELSE IF s.next_agent = Some("PRODUCT_EXPERT") THEN "product_expert"
  ELSE IF s.next_agent = Some("EMAIL_WRITER") THEN "email_writer"
  ELSE "__end__"

route_from_supervisor(s) ==
  IF s.current_step > StepCeiling THEN "__end__"
  ELSE IF s.next_agent = Some("SQL_AGENT") THEN "sql_agent"
  ELSE IF s.next_agent = Some("DATAVIZ_AGENT") THEN "dataviz_agent"
  ELSE IF s.next_agent = Some("SEGMENTATION_AGENT") THEN "segmentation_agent"
  ELSE IF s.next_agent = Some("PRODUCT_EXPERT") THEN "product_expert"
  ELSE IF s.next_agent = Some("EMAIL_WRITER") THEN "email_writer"
  ELSE "__end__"

route_after_sql(s) ==
  IF s.is_complete \/ s.leads_data = None THEN "supervisor"
  ELSE IF s.needs_visualization /\ ~in_list("DATAVIZ_AGENT", s.completed_agents)
       THEN "dataviz_agent"
  ELSE "supervisor"

\* ---------------------------------------------------------- supervisor.py

needs_sql_of(user_request) == any_in(needs_sql_keywords, str_lower(user_request))
needs_viz_of(user_request) == any_in(needs_viz_keywords, str_lower(user_request))
needs_email_of(user_request) == str_in(kw_email, str_lower(user_request))
needs_product_of(user_request) == str_in(kw_learning_labs, str_lower(user_request))
needs_strategy_of(user_request) == any_in(needs_strategy_keywords, str_lower(user_request))

\* Faulty variant of decide: rule 3 does not look at completed_agents.
decide_product_again(needs_sql, needs_viz, needs_email, needs_product, needs_strategy, completed_agents, leads_data) ==
  IF needs_sql /\ ~in_list("SQL_AGENT", completed_agents) THEN "SQL_AGENT"
  ELSE IF needs_viz /\ ~in_list("DATAVIZ_AGENT", completed_agents)
          /\ (leads_data # None \/ ~needs_sql) THEN "DATAVIZ_AGENT"
  ELSE IF needs_product /\ needs_email THEN "PRODUCT_EXPERT"
  ELSE IF needs_email /\ ~in_list("EMAIL_WRITER", completed_agents) THEN "EMAIL_WRITER"
  ELSE IF needs_strategy /\ ~in_list("SEGMENTATION_AGENT", completed_agents)
       THEN "SEGMENTATION_AGENT"
  ELSE IF needs_product /\ ~needs_email /\ ~in_list("PRODUCT_EXPERT", completed_agents)
       THEN "PRODUCT_EXPERT"
  ELSE IF ~in_list("SQL_AGENT", completed_agents) THEN "SQL_AGENT"
  ELSE "COMPLETE"

\* Faulty variant of decide: the email writer is tried before the product expert.
decide_email_first(needs_sql, needs_viz, needs_email, needs_product, needs_strategy, completed_agents, leads_data) ==
  IF needs_sql /\ ~in_list("SQL_AGENT", completed_agents) THEN "SQL_AGENT"
  ELSE IF needs_viz /\ ~in_list("DATAVIZ_AGENT", completed_agents)
          /\ (leads_data # None \/ ~needs_sql) THEN "DATAVIZ_AGENT"
  ELSE IF needs_email /\ ~in_list("EMAIL_WRITER", completed_agents) THEN "EMAIL_WRITER"
  ELSE IF needs_product /\ needs_email /\ ~in_list("PRODUCT_EXPERT", completed_agents)
       THEN "PRODUCT_EXPERT"
  ELSE IF needs_strategy /\ ~in_list("SEGMENTATION_AGENT", completed_agents)
       THEN "SEGMENTATION_AGENT"
  ELSE IF needs_product /\ ~needs_email /\ ~in_list("PRODUCT_EXPERT", completed_agents)
       THEN "PRODUCT_EXPERT"
  ELSE IF ~in_list("SQL_AGENT", completed_agents) THEN "SQL_AGENT"
  ELSE "COMPLETE"

\* Faulty variant of decide: the strategy rule is tried before the email rule.
decide_strategy_first(needs_sql, needs_viz, needs_email, needs_product, needs_strategy, completed_agents, leads_data) ==
  IF needs_sql /\ ~in_list("SQL_AGENT", completed_agents) THEN "SQL_AGENT"
  ELSE IF needs_viz /\ ~in_list("DATAVIZ_AGENT", completed_agents)
          /\ (leads_data # None \/ ~needs_sql) THEN "DATAVIZ_AGENT"
  ELSE IF needs_product /\ needs_email /\ ~in_list("PRODUCT_EXPERT", completed_agents)
       THEN "PRODUCT_EXPERT"
  ELSE IF needs_strategy /\ ~in_list("SEGMENTATION_AGENT", completed_agents)
       THEN "SEGMENTATION_AGENT"
  ELSE IF needs_email /\ ~in_list("EMAIL_WRITER", completed_agents) THEN "EMAIL_WRITER"
  ELSE IF needs_product /\ ~needs_email /\ ~in_list("PRODUCT_EXPERT", completed_agents)
       THEN "PRODUCT_EXPERT"
  ELSE IF ~in_list("SQL_AGENT", completed_agents) THEN "SQL_AGENT"
  ELSE "COMPLETE"

\* The rule cascade of supervisor_node: the agent to dispatch, or "COMPLETE".
decide(needs_sql, needs_viz, needs_email, needs_product, needs_strategy, completed_agents, leads_data) ==
  IF needs_sql /\ ~in_list("SQL_AGENT", completed_agents) THEN "SQL_AGENT"
  ELSE IF needs_viz /\ ~in_list("DATAVIZ_AGENT", completed_agents)
          /\ (leads_data # None \/ ~needs_sql) THEN "DATAVIZ_AGENT"
  ELSE IF needs_product /\ needs_email /\ ~in_list("PRODUCT_EXPERT", completed_agents)
       THEN "PRODUCT_EXPERT"
  ELSE IF needs_email /\ ~in_list("EMAIL_WRITER", completed_agents) THEN "EMAIL_WRITER"
  ELSE IF needs_strategy /\ ~in_list("SEGMENTATION_AGENT", completed_agents)
       THEN "SEGMENTATION_AGENT"
  ELSE IF needs_product /\ ~needs_email /\ ~in_list("PRODUCT_EXPERT", completed_agents)
       THEN "PRODUCT_EXPERT"
  ELSE IF ~in_list("SQL_AGENT", completed_agents) THEN "SQL_AGENT"
  ELSE "COMPLETE"

\* Faulty variant of dispatch: the agents recorded before are forgotten.
dispatch_forgetful(agent, current_step, completed_agents) ==
  [ next_agent |-> Some(agent),
    current_step |-> current_step + 1,
    completed_agents |-> <<agent>>,
    messages |-> <<>> ]

\* Faulty variant of dispatch: a dispatching decision counts as two steps.
dispatch_two_steps(agent, current_step, completed_agents) ==
  [ next_agent |-> Some(agent),
    current_step |-> current_step + 2,
    completed_agents |-> Append(completed_agents, agent),
    messages |-> <<>> ]

\* The dict returned when an agent is dispatched.
dispatch(agent, current_step, completed_agents) ==
  [ next_agent |-> Some(agent),
    current_step |-> current_step + 1,
    completed_agents |-> Append(completed_agents, agent),
    messages |-> <<>> ]

\* The dict returned when the SQL agent is dispatched: the flag is carried too.
dispatch_sql(current_step, completed_agents, needs_viz) ==
  [ next_agent |-> Some("SQL_AGENT"),
    current_step |-> current_step + 1,
    completed_agents |-> Append(completed_agents, "SQL_AGENT"),
    needs_visualization |-> needs_viz,
    messages |-> <<>> ]

\* Faulty variant of all_done: the terminal decision does not count as a step.
all_done_same_step(current_step) ==
  [ next_agent |-> Some("COMPLETE"),
    is_complete |-> TRUE,
    messages |-> <<>> ]

\* Faulty variant of all_done: the terminal decision does not mark the turn
\* complete.
all_done_incomplete(current_step) ==
  [ next_agent |-> Some("COMPLETE"),
    current_step |-> current_step + 1,
    messages |-> <<>> ]

\* The dict returned when nothing is left to do.
all_done(current_step) ==
  [ next_agent |-> Some("COMPLETE"),
    current_step |-> current_step + 1,
    is_complete |-> TRUE,
    messages |-> <<>> ]

\* The five intent flags of every request of the model (each request is scanned
\* once; supervisor_node looks its flags up here).
request_intents ==
  [user_request \in Requests |->
     [ needs_sql |-> needs_sql_of(user_request),
       needs_viz |-> needs_viz_of(user_request),
       needs_email |-> needs_email_of(user_request),
       needs_product |-> needs_product_of(user_request),
       needs_strategy |-> needs_strategy_of(user_request) ]]

\* Faulty variant of supervisor_node: a request that names the product is sent
\* to the product expert without any bookkeeping.
supervisor_node_product_unrecorded(s) ==
  LET needs == request_intents[first_human(s.messages)]
      agent == decide(needs.needs_sql, needs.needs_viz, needs.needs_email,
                      needs.needs_product, needs.needs_strategy,
                      s.completed_agents, s.leads_data)
  IN IF needs.needs_product
     THEN [next_agent |-> Some("PRODUCT_EXPERT"), messages |-> <<>>]
     ELSE IF agent = "SQL_AGENT"
     THEN dispatch_sql(s.current_step, s.completed_agents, needs.needs_viz)
     ELSE IF agent = "COMPLETE" THEN all_done(s.current_step)
     ELSE dispatch(agent, s.current_step, s.completed_agents)

supervisor_node(s) ==
  LET needs == request_intents[first_human(s.messages)]
      agent == decide(needs.needs_sql, needs.needs_viz, needs.needs_email,
                      needs.needs_product, needs.needs_strategy,
                      s.completed_agents, s.leads_data)
  IN IF agent = "SQL_AGENT"
     THEN dispatch_sql(s.current_step, s.completed_agents, needs.needs_viz)
     ELSE IF agent = "COMPLETE" THEN all_done(s.current_step)
     ELSE dispatch(agent, s.current_step, s.completed_agents)

\* ----------------------------------------------------------- sql_agent.py

NotSqlLength == 100

\* Faulty variant of detect_invalid_response: the gaming words are looked for first.
detect_gaming_first(response) ==
  LET response_lower == str_lower(response)
  IN IF any_in(gaming_indicators, response_lower)
     THEN [invalid |-> TRUE, type |-> "gaming_confusion"]
     ELSE IF any_in(web_indicators, response_lower)
     THEN [invalid |-> TRUE, type |-> "web_search"]
     ELSE IF ~any_in(sql_keywords, str_upper(response)) /\ Len(response) > NotSqlLength
     THEN [invalid |-> TRUE, type |-> "not_sql"]
     ELSE [invalid |-> FALSE, type |-> ""]

\* detect_invalid_response: (is_invalid, invalid_type)
detect_invalid_response(response) ==
  LET response_lower == str_lower(response)
  IN IF any_in(web_indicators, response_lower)
     THEN [invalid |-> TRUE, type |-> "web_search"]
     ELSE IF any_in(gaming_indicators, response_lower)
     THEN [invalid |-> TRUE, type |-> "gaming_confusion"]
     ELSE IF ~any_in(sql_keywords, str_upper(response)) /\ Len(response) > NotSqlLength
     THEN [invalid |-> TRUE, type |-> "not_sql"]
     ELSE [invalid |-> FALSE, type |-> ""]

\* validate_sql: (is_valid, error_message)
validate_sql(sql) ==
  LET sql_upper == str_upper(sql)
  IN IF str_in(kw_WITH, sql_upper) /\ str_in(kw_AS, sql_upper)
     THEN [valid |-> FALSE, error |-> "CTEs (WITH clauses) are not allowed. Use simple SELECT."]
     ELSE IF str_count(sql_upper, kw_SELECT) > 1
     THEN [valid |-> FALSE, error |-> "Subqueries are not allowed. Use simple SELECT."]
     ELSE IF str_in(kw_JOIN, sql_upper)
     THEN [valid |-> FALSE, error |-> "JOINs are not allowed. Only the leadscored table is available."]
     ELSE IF ~str_in(kw_leadscored, str_lower(sql))
     THEN [valid |-> FALSE, error |-> "Invalid table. Only 'leadscored' table exists."]
     ELSE [valid |-> TRUE, error |-> ""]

\* The number of whitespace characters of t from position k on.
ws_run(t, k) ==
  LET rest == {m \in k..Len(t) : t[m] \notin Whitespace}
  IN IF rest = {} THEN Len(t) - k + 1 ELSE (CHOOSE m \in rest : \A n \in rest : m <= n) - k

\* Where a match of SELECT\s+.+?; that starts at i ends, 0 if there is none:
\* \s+ takes the whole whitespace run, .+? at least one character (newlines
\* too) up to the first semicolon; when that fails \s+ gives one character back.
re_select_end(t, i) ==
  LET w == ws_run(t, i + 6)
      j == str_find(t, kw_semicolon, i + 7 + w)
  IN IF ~str_at(str_upper(t), kw_SELECT, i) \/ w = 0 THEN 0
     ELSE IF j # 0 THEN j
     ELSE IF w >= 2 /\ str_at(t, kw_semicolon, i + 6 + w) THEN i + 6 + w
     ELSE 0

\* re.search(r'(SELECT\s+.+?;)', t, re.IGNORECASE | re.DOTALL): group(1) or None
re_select_search(t) ==
  LET starts == {i \in 1..Len(t) : re_select_end(t, i) # 0}
  IN IF starts = {} THEN None
     ELSE LET i == CHOOSE k \in starts : \A h \in starts : k <= h
          IN Some(SubSeq(t, i, re_select_end(t, i)))

\* The query text taken from the generated text.
extract_sql(sql_text) ==
  LET select_match == re_select_search(sql_text)
      sql_query == IF select_match # None THEN str_strip(select_match[1])
                   ELSE IF str_startswith(str_upper(sql_text), kw_SELECT)
                   THEN str_strip(str_split_first(sql_text, kw_semicolon)) \o kw_semicolon
                   ELSE sql_text
  IN str_strip(str_replace(str_replace(sql_query, fence_sql, <<>>), fence, <<>>))

\* Faulty variant of sql_user_question: the clarification replaces the request.
sql_user_question_option_only(user_request, user_clarification) ==
  IF user_clarification # None
  THEN user_clarification[1]
  ELSE user_request

\* The question the pipeline works on: the request, annotated with the
\* clarification when one was supplied.
sql_user_question(user_request, user_clarification) ==
  IF user_clarification # None
  THEN user_request \o clarified_prefix \o user_clarification[1] \o clarified_suffix
  ELSE user_request

sql_needs_viz(user_question) == any_in(sql_viz_words, str_lower(user_question))

\* The pipeline's visualization flag for every request and clarification answer
\* of the model (each question is scanned once).
question_needs_viz ==
  [user_request \in Requests |->
     [user_clarification \in Clarifications \cup {Some(option) : option \in AllOptions} |->
        sql_needs_viz(sql_user_question(user_request, user_clarification))]]

\* The dict returned when the plan fails the sanity check.
clarify_plan(invalid_type) ==
  IF invalid_type = "gaming_confusion"
  THEN [ messages |-> <<AIMessage("[SQL Agent]", "clarify_gaming", <<>>, <<>>, "")>>,
         needs_clarification |-> TRUE,
         clarification_question |-> Some("Which 'Champions' did you mean?"),
         clarification_options |-> Some(options_gaming),
         is_complete |-> FALSE ]
  ELSE IF invalid_type = "web_search"
  THEN [ messages |-> <<AIMessage("[SQL Agent]", "clarify_web", <<>>, <<>>, "")>>,
         needs_clarification |-> TRUE,
         clarification_question |-> Some("What database information do you need?"),
         clarification_options |-> Some(options_web),
         is_complete |-> FALSE ]
  ELSE [ messages |-> <<AIMessage("[SQL Agent]", "clarify_not_sql", <<>>, <<>>, "")>>,
         needs_clarification |-> TRUE,
         clarification_question |-> Some("Please rephrase your question"),
         clarification_options |-> Some(options_not_sql),
         is_complete |-> FALSE ]

\* Faulty variant of cannot_answer: the marker is answered with a request for
\* clarification.
cannot_answer_asks(plan, needs_viz) ==
  [ messages |-> <<AIMessage("[SQL Agent]", "cannot_answer", <<plan>>, <<>>, "")>>,
    sql_plan |-> Some(plan),
    leads_data |-> None,
    needs_visualization |-> needs_viz,
    needs_clarification |-> TRUE,
    is_complete |-> FALSE ]

\* The dict returned when the plan is the CANNOT_ANSWER marker.
cannot_answer(plan, needs_viz) ==
  [ messages |-> <<AIMessage("[SQL Agent]", "cannot_answer", <<plan>>, <<>>, "")>>,
    sql_plan |-> Some(plan),
    leads_data |-> None,
    needs_visualization |-> needs_viz,
    needs_clarification |-> FALSE,
    is_complete |-> TRUE ]

\* The dict returned when the generated text fails the sanity check.
clarify_generate ==
  [ messages |-> <<AIMessage("[SQL Agent]", "clarify_generate", <<>>, <<>>, "")>>,
    needs_clarification |-> TRUE,
    clarification_question |-> Some("What would you like to query?"),
    clarification_options |-> Some(options_generate),
    is_complete |-> FALSE ]

\* Faulty variant of validation_failed: the violated rule is not recorded.
validation_failed_unrecorded(plan, sql_query, validation_error, needs_viz) ==
  [ messages |-> <<AIMessage("[SQL Agent]", "validation_failed", <<sql_query>>, <<>>,
                              validation_error)>>,
    sql_plan |-> Some(plan),
    sql_query |-> Some(sql_query),
    needs_clarification |-> TRUE,
    clarification_question |-> Some("Try a simpler query?"),
    clarification_options |-> Some(options_validation),
    leads_data |-> None,
    needs_visualization |-> needs_viz,
    is_complete |-> FALSE ]

\* The dict returned when validate_sql rejects the query.
validation_failed(plan, sql_query, validation_error, needs_viz) ==
  [ messages |-> <<AIMessage("[SQL Agent]", "validation_failed", <<sql_query>>, <<>>,
                              validation_error)>>,
    sql_plan |-> Some(plan),
    sql_query |-> Some(sql_query),
    sql_validation_error |-> Some(validation_error),
    needs_clarification |-> TRUE,
    clarification_question |-> Some("Try a simpler query?"),
    clarification_options |-> Some(options_validation),
    leads_data |-> None,
    needs_visualization |-> needs_viz,
    is_complete |-> FALSE ]

\* Faulty variant of execution_error: no clarification is asked for.
execution_error_unflagged(plan, sql_query, needs_viz) ==
  [ messages |-> <<AIMessage("[SQL Agent]", "execution_error", <<plan, sql_query>>, <<>>, "error_msg")>>,
    sql_plan |-> Some(plan),
    sql_query |-> Some(sql_query),
    needs_clarification |-> FALSE,
    leads_data |-> None,
    needs_visualization |-> needs_viz,
    is_complete |-> FALSE ]

\* The dict returned when the data store raises.
execution_error(plan, sql_query, needs_viz) ==
  [ messages |-> <<AIMessage("[SQL Agent]", "execution_error", <<plan, sql_query>>, <<>>, "error_msg")>>,
    sql_plan |-> Some(plan),
    sql_query |-> Some(sql_query),
    needs_clarification |-> TRUE,
    clarification_question |-> Some("Query failed. Try another?"),
    clarification_options |-> Some(options_execution),
    leads_data |-> None,
    needs_visualization |-> needs_viz,
    is_complete |-> FALSE ]

PreviewRows == 15

Min(a, b) == IF a <= b THEN a ELSE b

\* Faulty variant of query_result: an empty result asks for a clarification.
query_result_empty_asks(plan, sql_query, df, needs_viz) ==
  [ messages |->
      IF df.nrows = 0
      THEN <<AIMessage("[SQL Agent]", "no_data", <<plan, sql_query>>, <<>>, "")>>
      ELSE <<AIMessage("[SQL Agent]", "data", <<plan, sql_query>>,
                       <<df.nrows, Min(df.nrows, PreviewRows)>>, "")>>,
    sql_plan |-> Some(plan),
    sql_query |-> Some(sql_query),
    leads_data |-> IF df.nrows = 0 THEN None ELSE Some(df),
    needs_visualization |-> needs_viz,
    needs_clarification |-> df.nrows = 0,
    is_complete |-> FALSE ]

\* The dict returned after the query ran: no rows, or the rows and their preview.
query_result(plan, sql_query, df, needs_viz) ==
  [ messages |->
      IF df.nrows = 0
      THEN <<AIMessage("[SQL Agent]", "no_data", <<plan, sql_query>>, <<>>, "")>>
      ELSE <<AIMessage("[SQL Agent]", "data", <<plan, sql_query>>,
                       <<df.nrows, Min(df.nrows, PreviewRows)>>, "")>>,
    sql_plan |-> Some(plan),
    sql_query |-> Some(sql_query),
    leads_data |-> IF df.nrows = 0 THEN None ELSE Some(df),
    needs_visualization |-> needs_viz,
    needs_clarification |-> FALSE,
    is_complete |-> FALSE ]

\* The plan passes the sanity check and is no CANNOT_ANSWER marker: the
\* generate call is made.
plan_accepted(plan_content) ==
  LET plan == str_strip(plan_content)
  IN ~detect_invalid_response(plan).invalid /\ ~str_startswith(str_upper(plan), kw_CANNOT_ANSWER)

\* The generated text passes the sanity check and its query validation: the
\* data store is called.
query_accepted(sql_content) ==
  LET sql_text == str_strip(sql_content)
  IN ~detect_invalid_response(sql_text).invalid /\ validate_sql(extract_sql(sql_text)).valid

\* Faulty variant of sql_agent_node: the generated text is not put to the
\* sanity check.
sql_agent_node_unchecked_query(needs_viz, plan_content, sql_content, db) ==
  LET plan == str_strip(plan_content)
      detected == detect_invalid_response(plan)
      sql_text == str_strip(sql_content)
      sql_query == extract_sql(sql_text)
      validated == validate_sql(sql_query)
      ev_plan == <<Event("node", "sql_agent", <<>>, TRUE), Event("llm", "plan", plan, TRUE)>>
      ev_gen == ev_plan \o <<Event("llm", "generate", sql_text, TRUE)>>
      ev_val == ev_gen \o <<Event("validate", "sql_agent", sql_query, validated.valid)>>
      ev_exec == ev_val \o <<Event("execute", "sql_agent", sql_query, ~db.raises)>>
  IN IF detected.invalid
     THEN [update |-> clarify_plan(detected.type), events |-> ev_plan]
     ELSE IF str_startswith(str_upper(plan), kw_CANNOT_ANSWER)
     THEN [update |-> cannot_answer(plan, needs_viz), events |-> ev_plan]
     ELSE IF ~validated.valid
     THEN [update |-> validation_failed(plan, sql_query, validated.error, needs_viz),
           events |-> ev_val]
     ELSE IF db.raises
     THEN [update |-> execution_error(plan, sql_query, needs_viz), events |-> ev_exec]
     ELSE [update |-> query_result(plan, sql_query, db.df[1], needs_viz), events |-> ev_exec]

\* sql_agent_node. The state enters only through needs_viz, the visualization
\* flag of the question; the two generated texts and the data store's answer are
\* inputs. The result is the returned dict and what the run did (LLM calls,
\* validation, execution).
sql_agent_node(needs_viz, plan_content, sql_content, db) ==
  LET plan == str_strip(plan_content)
      detected == detect_invalid_response(plan)
      sql_text == str_strip(sql_content)
      sql_query == extract_sql(sql_text)
      validated == validate_sql(sql_query)
      ev_plan == <<Event("node", "sql_agent", <<>>, TRUE), Event("llm", "plan", plan, TRUE)>>
      ev_gen == ev_plan \o <<Event("llm", "generate", sql_text, TRUE)>>
      ev_val == ev_gen \o <<Event("validate", "sql_agent", sql_query, validated.valid)>>
      ev_exec == ev_val \o <<Event("execute", "sql_agent", sql_query, ~db.raises)>>
  IN IF detected.invalid
     THEN [update |-> clarify_plan(detected.type), events |-> ev_plan]
     ELSE IF str_startswith(str_upper(plan), kw_CANNOT_ANSWER)
     THEN [update |-> cannot_answer(plan, needs_viz), events |-> ev_plan]
     ELSE IF detect_invalid_response(sql_text).invalid
     THEN [update |-> clarify_generate, events |-> ev_gen]
     ELSE IF ~validated.valid
     THEN [update |-> validation_failed(plan, sql_query, validated.error, needs_viz),
           events |-> ev_val]
     ELSE IF db.raises
     THEN [update |-> execution_error(plan, sql_query, needs_viz), events |-> ev_exec]
     ELSE [update |-> query_result(plan, sql_query, db.df[1], needs_viz), events |-> ev_exec]

\* The inputs of a call that is not made.
no_response == <<>>
no_result == [raises |-> TRUE, df |-> None]

\* The inputs a run consumes: a generated text for every LLM call it makes and
\* an answer of the data store when it calls it.
SqlInputs ==
  UNION { UNION { { <<plan_content, sql_content, db>> :
                    db \in IF plan_accepted(plan_content) /\ query_accepted(sql_content)
                           THEN DbResults ELSE {no_result} } :
                  sql_content \in IF plan_accepted(plan_content) THEN SqlResponses
                                  ELSE {no_response} } :
          plan_content \in PlanResponses }

\* Everything sql_agent_node can return, by the visualization flag of the question.
sql_agent_returns ==
  [needs_viz \in BOOLEAN |->
     { sql_agent_node(needs_viz, in[1], in[2], in[3]) : in \in SqlInputs }]

\* -------------------------------------------------------- dataviz_agent.py

\* The column the chart is keyed on, or None.
chart_column(df) ==
  IF in_list("count", df.columns)
  THEN IF Len(df.columns) > 1
       THEN Some(SelectSeq(df.columns, LAMBDA c : c # "count")[1])
       ELSE Some(df.columns[1])
  ELSE IF in_list("Segment", df.columns) THEN Some("Segment")
  ELSE IF in_list("Lead_Source", df.columns) THEN Some("Lead_Source")
  ELSE IF in_list("Country", df.columns) THEN Some("Country")
  ELSE IF in_list("Occupation", df.columns) THEN Some("Occupation")
  ELSE IF df.str_cols # <<>> THEN Some(df.str_cols[1])
  ELSE None

\* What the request asks of the chart.
chart_wants_of(user_question) ==
  LET q_lower == str_lower(user_question)
  IN [ wants_pie |-> str_in(kw_pie, q_lower),
       wants_bar |-> str_in(kw_bar, q_lower),
       wants_chart |-> any_in(chart_words, q_lower) ]

\* The chart wishes of every request of the model (each request is scanned once).
chart_wants ==
  [user_question \in Requests |-> chart_wants_of(user_question)]

\* Faulty variant of chart_payload: the chart is a pie unless a bar is asked for.
chart_payload_pie_by_default(wants, df) ==
  LET chart_col == chart_column(df)
  IN IF (wants.wants_chart \/ wants.wants_pie \/ wants.wants_bar)
        /\ chart_col # None /\ df.nrows > 0
     THEN Some([type |-> IF wants.wants_bar THEN "bar" ELSE "pie", column |-> chart_col[1]])
     ELSE None

\* The chart payload, or None.
chart_payload(wants, df) ==
  LET chart_col == chart_column(df)
  IN IF (wants.wants_chart \/ wants.wants_pie \/ wants.wants_bar)
        /\ chart_col # None /\ df.nrows > 0
     THEN Some([type |-> IF wants.wants_pie THEN "pie" ELSE "bar", column |-> chart_col[1]])
     ELSE None

\* Faulty variant of dataviz_agent_node: the text-generation call is made even
\* when there are no rows.
dataviz_agent_node_always_analyses(s, llm_ok) ==
  LET wants == chart_wants[first_human(s.messages)]
      ev_node == <<Event("node", "dataviz_agent", <<>>, TRUE)>>
  IN IF s.leads_data = None
     THEN [update |-> [messages |-> <<AIMessage("[Data Viz Agent]", "no_data", <<>>, <<>>, "")>>,
                       is_complete |-> TRUE],
           events |-> ev_node \o <<Event("llm", "dataviz_agent", <<>>, llm_ok)>>]
     ELSE LET df == s.leads_data[1]
          IN IF df.nrows = 0
             THEN [update |-> [messages |-> <<AIMessage("[Data Viz Agent]", "empty", <<>>, <<>>, "")>>,
                               is_complete |-> TRUE],
                   events |-> ev_node]
             ELSE [update |->
                     [messages |->
                        <<[AIMessage("[Data Viz Agent]", "analysis",
                                     IF llm_ok THEN <<generic_response>> ELSE <<>>,
                                     <<df.nrows>>,
                                     IF llm_ok THEN "" ELSE "Analysis unavailable.")
                            EXCEPT !.chart = chart_payload(wants, df)]>>,
                      is_complete |-> TRUE],
                   events |-> ev_node \o <<Event("llm", "dataviz_agent", <<>>, llm_ok)>>]

\* dataviz_agent_node; llm_ok: the text-generation call returned.
dataviz_agent_node(s, llm_ok) ==
  LET wants == chart_wants[first_human(s.messages)]
      ev_node == <<Event("node", "dataviz_agent", <<>>, TRUE)>>
  IN IF s.leads_data = None
     THEN [update |-> [messages |-> <<AIMessage("[Data Viz Agent]", "no_data", <<>>, <<>>, "")>>,
                       is_complete |-> TRUE],
           events |-> ev_node]
     ELSE LET df == s.leads_data[1]
          IN IF df.nrows = 0
             THEN [update |-> [messages |-> <<AIMessage("[Data Viz Agent]", "empty", <<>>, <<>>, "")>>,
                               is_complete |-> TRUE],
                   events |-> ev_node]
             ELSE [update |->
                     [messages |->
                        <<[AIMessage("[Data Viz Agent]", "analysis",
                                     IF llm_ok THEN <<generic_response>> ELSE <<>>,
                                     <<df.nrows>>,
                                     IF llm_ok THEN "" ELSE "Analysis unavailable.")
                            EXCEPT !.chart = chart_payload(wants, df)]>>,
                      is_complete |-> TRUE],
                   events |-> ev_node \o <<Event("llm", "dataviz_agent", <<>>, llm_ok)>>]

\* --------------------------------------------------- segmentation_agent.py

\* Faulty variant of segmentation_agent_node: the analysis is appended twice.
segmentation_agent_node_twice(s) ==
  [update |-> [messages |-> <<AIMessage("[Segmentation Analyst]", "analysis",
                                        <<generic_response>>, <<>>, ""),
                              AIMessage("[Segmentation Analyst]", "analysis",
                                        <<generic_response>>, <<>>, "")>>,
               segment_analysis |-> Some(generic_response)],
   events |-> <<Event("node", "segmentation_agent", <<>>, TRUE),
                Event("llm", "segmentation_agent", last_human(s.messages), TRUE)>>]

segmentation_agent_node(s) ==
  [update |-> [messages |-> <<AIMessage("[Segmentation Analyst]", "analysis",
                                        <<generic_response>>, <<>>, "")>>,
               segment_analysis |-> Some(generic_response)],
   events |-> <<Event("node", "segmentation_agent", <<>>, TRUE),
                Event("llm", "segmentation_agent", last_human(s.messages), TRUE)>>]

\* ------------------------------------------------------- product_expert.py

product_str == "Product: Learning Labs Pro"

\* Faulty variant of product_expert_node: product_info is not returned.
product_expert_node_without_info(s) ==
  [update |-> [messages |-> <<AIMessage("[Product Expert]", "product",
                                        <<generic_response>>, <<>>, "")>>],
   events |-> <<Event("node", "product_expert", <<>>, TRUE),
                Event("llm", "product_expert", <<>>, TRUE)>>]

product_expert_node(s) ==
  [update |-> [messages |-> <<AIMessage("[Product Expert]", "product",
                                        <<generic_response>>, <<>>, "")>>,
               product_info |-> Some(product_str)],
   events |-> <<Event("node", "product_expert", <<>>, TRUE),
                Event("llm", "product_expert", <<>>, TRUE)>>]

\* --------------------------------------------------------- email_writer.py

default_product_info == "Learning Labs Pro - Professional development platform"

\* Faulty variant of email_writer_node: the rows are dropped.
email_writer_node_dropping_rows(s) ==
  LET product_info == IF s.product_info = None THEN default_product_info ELSE s.product_info[1]
  IN [update |-> [messages |-> <<AIMessage("[Email Writer]", "email",
                                           <<generic_response>>, <<>>, product_info)>>,
                  email_draft |-> Some(generic_response),
                  leads_data |-> None,
                  is_complete |-> TRUE],
      events |-> <<Event("node", "email_writer", <<>>, TRUE),
                   Event("llm", "email_writer", first_human(s.messages), TRUE)>>]

email_writer_node(s) ==
  LET product_info == IF s.product_info = None THEN default_product_info ELSE s.product_info[1]
  IN [update |-> [messages |-> <<AIMessage("[Email Writer]", "email",
                                           <<generic_response>>, <<>>, product_info)>>,
                  email_draft |-> Some(generic_response),
                  is_complete |-> TRUE],
      events |-> <<Event("node", "email_writer", <<>>, TRUE),
                   Event("llm", "email_writer", first_human(s.messages), TRUE)>>]

\* ------------------------------------------------------------- the graph

\* The longest message log a node still appends to.
MaxMessages == 8

Responders ==
  {"sql_agent", "dataviz_agent", "segmentation_agent", "product_expert", "email_writer"}

\* The caller's session before its first turn.
new_session ==
  [messages |-> <<>>, pending_clarification |-> None, original_prompt |-> None]

\* run_team_query builds the initial state; the graph's entry point is the supervisor.
Init ==
  \E user_message \in Requests, user_clarification \in Clarifications :
    /\ state = initial_state(user_message, user_clarification)
    /\ pc = "supervisor"
    /\ events = <<>>
    /\ session = new_session

\* A later invocation of run_team_query for the same request, once the graph has
\* returned: a retry, or the resume with a clarification answer. (Init covers the
\* invocations for every other request.)
RunTeamQuery ==
  /\ pc = "__end__"
  /\ \E user_clarification \in Clarifications :
       state' = initial_state(first_human(state.messages), user_clarification)
  /\ pc' = "supervisor"
  /\ events' = <<>>
  /\ UNCHANGED session

\* The supervisor node and its conditional edge.
Supervisor ==
  /\ pc = "supervisor"
  /\ state' = apply_update(state, supervisor_node(state))
  /\ pc' = route_from_supervisor(state')
  /\ events' = Append(events, Event("node", "supervisor", <<>>, TRUE))
  /\ UNCHANGED session

\* The SQL agent node and its conditional edge, for any generated texts and any
\* answer of the data store. The history also keeps the question the node
\* builds for its plan prompt.
SqlAgent ==
  /\ pc = "sql_agent"
  /\ Len(state.messages) < MaxMessages
  /\ \E r \in sql_agent_returns[question_needs_viz[first_human(state.messages)][state.user_clarification]] :
       /\ state' = apply_update(state, r.update)
       /\ events' = events
                      \o <<Head(r.events),
                           Event("question", "sql_agent",
                                 sql_user_question(first_human(state.messages),
                                                   state.user_clarification), TRUE)>>
                      \o Tail(r.events)
  /\ pc' = route_after_sql(state')
  /\ UNCHANGED session

\* The data-viz node; its edge leads to the supervisor.
DatavizAgent ==
  /\ pc = "dataviz_agent"
  /\ Len(state.messages) < MaxMessages
  /\ \E llm_ok \in BOOLEAN :
       LET r == dataviz_agent_node(state, llm_ok)
       IN /\ state' = apply_update(state, r.update)
          /\ events' = events \o r.events
  /\ pc' = "supervisor"
  /\ UNCHANGED session

SegmentationAgent ==
  /\ pc = "segmentation_agent"
  /\ Len(state.messages) < MaxMessages
  /\ LET r == segmentation_agent_node(state)
     IN /\ state' = apply_update(state, r.update)
        /\ events' = events \o r.events
  /\ pc' = "supervisor"
  /\ UNCHANGED session

ProductExpert ==
  /\ pc = "product_expert"
  /\ Len(state.messages) < MaxMessages
  /\ LET r == product_expert_node(state)
     IN /\ state' = apply_update(state, r.update)
        /\ events' = events \o r.events
  /\ pc' = "supervisor"
  /\ UNCHANGED session

\* Faulty variant of EmailWriter: the node's edge leads back to the supervisor.
EmailWriterToSupervisor ==
  /\ pc = "email_writer"
  /\ Len(state.messages) < MaxMessages
  /\ LET r == email_writer_node(state)
     IN /\ state' = apply_update(state, r.update)
        /\ events' = events \o r.events
  /\ pc' = "supervisor"
  /\ UNCHANGED session

\* The email writer node; its edge leads to END.
EmailWriter ==
  /\ pc = "email_writer"
  /\ Len(state.messages) < MaxMessages
  /\ LET r == email_writer_node(state)
     IN /\ state' = apply_update(state, r.update)
        /\ events' = events \o r.events
  /\ pc' = "__end__"
  /\ UNCHANGED session

\* One step of the compiled graph.
GraphStep ==
  \/ Supervisor
  \/ SqlAgent
  \/ DatavizAgent
  \/ SegmentationAgent
  \/ ProductExpert
  \/ EmailWriter

Next == GraphStep \/ RunTeamQuery

Spec == Init /\ [][Next]_vars

\* The graph runs a started turn node by node until it returns.
FairSpec == Spec /\ WF_vars(GraphStep)

\* ------------------------------------------- text-generation calls that raise

\* The plans after which sql_agent_node makes its generate call.
accepted_plans ==
  {plan_content \in PlanResponses : plan_accepted(plan_content)}

\* llm.invoke raises in sql_agent_node, in the plan stage or in the generate
\* stage; neither call is inside a try block, so the node returns nothing and
\* the exception leaves app.invoke.
SqlAgentRaises ==
  /\ pc = "sql_agent"
  /\ Len(state.messages) < MaxMessages
  /\ LET started == <<Event("node", "sql_agent", <<>>, TRUE),
                      Event("question", "sql_agent",
                            sql_user_question(first_human(state.messages),
                                              state.user_clarification), TRUE)>>
     IN \/ events' = events \o started \o <<Event("llm", "plan", <<>>, FALSE)>>
        \/ \E plan_content \in accepted_plans :
             events' = events \o started
                         \o <<Event("llm", "plan", str_strip(plan_content), TRUE),
                              Event("llm", "generate", <<>>, FALSE)>>
  /\ pc' = "__raised__"
  /\ UNCHANGED <<state, session>>

\* llm.invoke raises in segmentation_agent_node; the call is not inside a try
\* block.
SegmentationAgentRaises ==
  /\ pc = "segmentation_agent"
  /\ Len(state.messages) < MaxMessages
  /\ events' = events \o <<Event("node", "segmentation_agent", <<>>, TRUE),
                           Event("llm", "segmentation_agent", last_human(state.messages), FALSE)>>
  /\ pc' = "__raised__"
  /\ UNCHANGED <<state, session>>

\* llm.invoke raises in product_expert_node; the call is not inside a try block.
ProductExpertRaises ==
  /\ pc = "product_expert"
  /\ Len(state.messages) < MaxMessages
  /\ events' = events \o <<Event("node", "product_expert", <<>>, TRUE),
                           Event("llm", "product_expert", <<>>, FALSE)>>
  /\ pc' = "__raised__"
  /\ UNCHANGED <<state, session>>

\* llm.invoke raises in email_writer_node; the call is not inside a try block.
EmailWriterRaises ==
  /\ pc = "email_writer"
  /\ Len(state.messages) < MaxMessages
  /\ events' = events \o <<Event("node", "email_writer", <<>>, TRUE),
                           Event("llm", "email_writer", first_human(state.messages), FALSE)>>
  /\ pc' = "__raised__"
  /\ UNCHANGED <<state, session>>

\* A node's text-generation call raises and the exception leaves the graph.
GraphRaise ==
  \/ SqlAgentRaises
  \/ SegmentationAgentRaises
  \/ ProductExpertRaises
  \/ EmailWriterRaises

\* ---------------------------------------------------------------- app.py

\* An entry of st.session_state.messages; parts are the texts it is made of.
Entry(role, kind, parts) ==
  [role |-> role, kind |-> kind, parts |-> parts]

\* The text shown and recorded for a message: the chart marker is cut out.
display_content(msg) ==
  [msg EXCEPT !.chart = None]

\* content[:100], the key duplicates are recognised by; the chart marker comes
\* after the narrative.
content_key(msg) ==
  [msg EXCEPT !.chart = None, !.note = ""]

\* The message is skipped: empty content or a supervisor routing message.
skipped(msg) ==
  \/ msg.parts = <<<<>>>> /\ msg.type = "human"
  \/ msg.tag = "[Supervisor]"

\* response_parts: the result's messages in order, without the skipped ones
\* and without later duplicates.
RECURSIVE response_parts(_)
response_parts(messages) ==
  IF messages = <<>> THEN <<>>
  ELSE LET front == SubSeq(messages, 1, Len(messages) - 1)
           msg == messages[Len(messages)]
       IN IF \/ skipped(msg)
             \/ \E i \in 1..Len(front) : content_key(front[i]) = content_key(msg)
          THEN response_parts(front)
          ELSE Append(response_parts(front), display_content(msg))

\* The script run for a prompt submitted in a new session, up to the call of
\* run_team_query: the prompt is recorded, there is no stored clarification.
InitApp ==
  \E prompt \in Requests :
    /\ session = [new_session EXCEPT !.messages = <<Entry("user", "prompt", <<prompt>>)>>]
    /\ state = initial_state(prompt, None)
    /\ pc = "supervisor"
    /\ events = <<>>

\* run_team_query returned: the response is put together from the result's
\* messages and recorded. (The clarification buttons are only drawn in this
\* run; a click belongs to a later run.)
AppRender ==
  /\ pc = "__end__"
  /\ session.messages # <<>>
  /\ LET parts == response_parts(state.messages)
     IN session' = [session EXCEPT !.messages =
                      Append(@, IF parts # <<>>
                                THEN Entry("assistant", "response", parts)
                                ELSE Entry("assistant", "no_response", <<>>))]
  /\ pc' = "idle"
  /\ UNCHANGED <<state, events>>

\* run_team_query raised: the except branch shows the error and records it.
AppCatch ==
  /\ pc = "__raised__"
  /\ session.messages # <<>>
  /\ session' = [session EXCEPT !.messages = Append(@, Entry("assistant", "error", <<>>))]
  /\ pc' = "idle"
  /\ UNCHANGED <<state, events>>

NextApp == GraphStep \/ GraphRaise \/ AppRender \/ AppCatch

\* One turn of the caller, with text-generation calls that may raise.
SpecApp == InitApp /\ [][NextApp]_vars

\* ------------------------------------------------- app.py, turn after turn

\* The first text the user submits: a request for the SQL agent, which may ask
\* for clarification, the segmentation agent and the product expert.
FirstPrompts ==
  {<<"s","h","o","w"," ","l","e","a","r","n","i","n","g"," ","l","a","b","s"," ","s","t","r","a","t","e","g","y">>}

\* The texts the user submits later: a request only the email writer answers.
LaterPrompts ==
  {<<"e","m","a","i","l">>}

\* The most prompts submitted in a session.
MaxTurns == 2

\* Faulty variant of submitted: the stored choice is used but not cleared.
submitted_keeping_choice(sess, prompt) ==
  LET recorded == [sess EXCEPT !.messages = Append(@, Entry("user", "prompt", <<prompt>>))]
  IN IF sess.pending_clarification # None
     THEN [session |-> recorded,
           prompt |-> IF sess.original_prompt # None THEN sess.original_prompt[1] ELSE prompt,
           user_clarification |-> sess.pending_clarification]
     ELSE [session |-> recorded, prompt |-> prompt, user_clarification |-> None]

\* The script run for a submitted prompt, up to the call of run_team_query:
\* the prompt is recorded; a stored choice replaces the prompt by the stored
\* request, becomes the clarification answer, and both are cleared.
submitted(sess, prompt) ==
  LET recorded == [sess EXCEPT !.messages = Append(@, Entry("user", "prompt", <<prompt>>))]
  IN IF sess.pending_clarification # None
     THEN [session |-> [recorded EXCEPT !.pending_clarification = None, !.original_prompt = None],
           prompt |-> IF sess.original_prompt # None THEN sess.original_prompt[1] ELSE prompt,
           user_clarification |-> sess.pending_clarification]
     ELSE [session |-> recorded, prompt |-> prompt, user_clarification |-> None]

\* How many prompts the session has recorded.
turns ==
  Cardinality({i \in 1..Len(session.messages) : session.messages[i].role = "user"})

\* The first prompt of a new session.
InitSession ==
  \E prompt \in FirstPrompts :
    LET run == submitted(new_session, prompt)
    IN /\ session = run.session
       /\ state = initial_state(run.prompt, run.user_clarification)
       /\ pc = "supervisor"
       /\ events = <<>>

\* A later prompt of the session.
AppSubmit ==
  /\ pc = "idle"
  /\ turns < MaxTurns
  /\ \E prompt \in LaterPrompts :
       LET run == submitted(session, prompt)
       IN /\ session' = run.session
          /\ state' = initial_state(run.prompt, run.user_clarification)
  /\ pc' = "supervisor"
  /\ events' = <<>>

\* The user clicks one of the option buttons drawn under a response that asks
\* for clarification: the option and the prompt of that run are stored and the
\* script is run again.
AppClick ==
  /\ pc = "idle"
  /\ session.messages[Len(session.messages)].kind = "response"
  /\ session.pending_clarification = None
  /\ state.needs_clarification
  /\ state.clarification_options # None
  /\ \E i \in 1..Len(state.clarification_options[1]) :
       session' = [session EXCEPT
                     !.pending_clarification = Some(state.clarification_options[1][i]),
                     !.original_prompt = Some(first_human(state.messages))]
  /\ UNCHANGED <<pc, state, events>>

NextSession == GraphStep \/ GraphRaise \/ AppRender \/ AppCatch \/ AppClick \/ AppSubmit

\* The caller over several turns.
SpecSession == InitSession /\ [][NextSession]_vars

\* ------------------------------------- the supervisor on any session state

AgentNames ==
  <<"SQL_AGENT", "DATAVIZ_AGENT", "SEGMENTATION_AGENT", "PRODUCT_EXPERT", "EMAIL_WRITER">>

\* The largest current_step a session state is given before a decision.
MaxAnyStep == 9

\* The session states the supervisor is asked to decide on: any request, any
\* list of completed agents, rows or no rows, any step count.
AnyStates ==
  { [initial_state(user_message, None) EXCEPT
       !.completed_agents = SelectSeq(AgentNames, LAMBDA a : a \in done),
       !.leads_data = leads_data,
       !.current_step = current_step]
    : user_message \in Requests,
      done \in SUBSET {AgentNames[i] : i \in 1..Len(AgentNames)},
      leads_data \in {None, Some(CHOOSE d \in DataFrames : d.nrows > 0)},
      current_step \in 0..MaxAnyStep }

InitAny ==
  /\ state \in AnyStates
  /\ pc = "supervisor"
  /\ events = <<>>
  /\ session = new_session

\* One decision of the supervisor and its conditional edge, on any session state.
SpecDecide == InitAny /\ [][Supervisor]_vars

\* ------------------------------------------------------------ history

\* How often a node ran in this turn.
runs(name) ==
  Cardinality({i \in 1..Len(events) : events[i].ev = "node" /\ events[i].name = name})

EventsOf(ev) == {i \in 1..Len(events) : events[i].ev = ev}

\* ------------------------------------------------------------- claims

\* C1: in one turn every responder node runs at most once, whether the
\* supervisor or route_after_sql dispatched it.
C1_EachResponderAtMostOnce ==
  \A r \in Responders : runs(r) <= 1

\* C2: once the SQL pipeline has asked for a clarification, no responder is
\* dispatched in that turn and the state returned to the caller is not complete.
C2_EscalationSuspendsTurn ==
  state.needs_clarification =>
    /\ pc \notin Responders
    /\ pc = "__end__" => ~state.is_complete

\* C3: in the state returned at the end of a turn, needs_clarification and
\* is_complete are never both true.
C3_ClarificationExcludesComplete ==
  pc = "__end__" => ~(state.needs_clarification /\ state.is_complete)

\* C4: every text handed to the data store begins with SELECT.
C4_OnlySelectExecuted ==
  \A i \in EventsOf("execute") : str_startswith(str_upper(events[i].text), kw_SELECT)

\* C5: the data store is called only right after validate_sql accepted the very
\* same text; after a rejection nothing is executed, leads_data is empty, the
\* violated rule is recorded in sql_validation_error and quoted in the
\* clarification request.
C5_ExecuteOnlyValidated ==
  /\ \A i \in EventsOf("execute") :
       /\ i > 1
       /\ events[i - 1].ev = "validate"
       /\ events[i - 1].ok
       /\ events[i - 1].text = events[i].text
  /\ \A i \in EventsOf("validate") :
       ~events[i].ok =>
         /\ EventsOf("execute") = {}
         /\ state.leads_data = None
         /\ state.sql_query = Some(events[i].text)
         /\ state.sql_validation_error # None
         /\ state.needs_clarification
         /\ state.clarification_options # None
         /\ \E m \in 1..Len(state.messages) :
              /\ state.messages[m].kind = "validation_failed"
              /\ state.messages[m].note = state.sql_validation_error[1]

\* C5 witness: a validated query was executed.
C5_Witness ==
  /\ pc = "supervisor"
  /\ EventsOf("execute") # {}
  /\ state.sql_validation_error = None

WordChars ==
  {Lowers[i] : i \in 1..26} \cup {Uppers[i] : i \in 1..26}
    \cup {"0", "1", "2", "3", "4", "5", "6", "7", "8", "9", "_"}

\* The words of a text (maximal runs of letters, digits and _), upper-cased.
WordsOf(t) ==
  LET starts == {i \in 1..Len(t) : t[i] \in WordChars /\ (i = 1 \/ t[i - 1] \notin WordChars)}
      stop(i) == CHOOSE j \in i..Len(t) :
                   /\ \A k \in i..j : t[k] \in WordChars
                   /\ (j = Len(t) \/ t[j + 1] \notin WordChars)
  IN [i \in starts |-> str_upper(SubSeq(t, i, stop(i)))]

HasWord(t, w) == \E i \in DOMAIN WordsOf(t) : WordsOf(t)[i] = w

CountWord(t, w) == Cardinality({i \in DOMAIN WordsOf(t) : WordsOf(t)[i] = w})

\* The rejection rule as the claim words it, on the keywords of the text.
KeywordReject(t) ==
  \/ HasWord(t, <<"W","I","T","H">>) /\ HasWord(t, <<"A","S">>)
  \/ CountWord(t, kw_SELECT) > 1
  \/ HasWord(t, kw_JOIN)
  \/ ~HasWord(t, str_upper(kw_leadscored))

\* C6: validate_sql rejects a text exactly when it has a WITH clause together
\* with AS, more than one SELECT keyword, a JOIN keyword, or does not name the
\* leadscored table.
C6_RejectsExactlyTheRules ==
  \A i \in EventsOf("validate") : ~events[i].ok <=> KeywordReject(events[i].text)

\* C7: every started turn reaches the end node.
C7_EveryTurnTerminates ==
  (pc # "__end__") ~> (pc = "__end__")

\* C7 witness: a turn that ended after five supervisor decisions.
C7_Witness ==
  pc = "__end__" /\ runs("supervisor") >= 5

\* C8: every run of the supervisor node adds exactly 1 to current_step and no
\* other node changes it.
C8_StepGrowsByOnePerDecision ==
  [][ /\ pc = "supervisor" => state'.current_step = state.current_step + 1
      /\ pc \in Responders => state'.current_step = state.current_step ]_vars

\* C8 witness: a turn ended by the terminal decision after responders ran.
C8_Witness ==
  /\ pc = "__end__"
  /\ state.next_agent = Some("COMPLETE")
  /\ state.current_step >= 3
  /\ runs("sql_agent") = 1

\* C9: when current_step exceeds 8 after a decision, the turn goes to the end
\* node whatever next_agent and completed_agents are.
C9_CeilingForcesEnd ==
  [][ pc = "supervisor" /\ state'.current_step > 8 => pc' = "__end__" ]_vars

\* C9 witness: the ceiling ended a turn whose decision was to dispatch an agent.
C9_Witness ==
  /\ pc = "__end__"
  /\ state.current_step > 8
  /\ state.next_agent = Some("SQL_AGENT")
  /\ state.completed_agents = <<"SQL_AGENT">>

\* The priority list of the claim: the target of the first rule that matches.
C10_FirstMatchingRule(s) ==
  LET req == first_human(s.messages)
      data == needs_sql_of(req)
      viz == needs_viz_of(req)
      email == needs_email_of(req)
      product == needs_product_of(req)
      strategy == needs_strategy_of(req)
      ran == {s.completed_agents[i] : i \in 1..Len(s.completed_agents)}
      rules ==
        << [when |-> data /\ "SQL_AGENT" \notin ran, go |-> "SQL_AGENT"],
           [when |-> viz /\ "DATAVIZ_AGENT" \notin ran /\ (s.leads_data # None \/ ~data),
            go |-> "DATAVIZ_AGENT"],
           [when |-> email /\ product /\ "PRODUCT_EXPERT" \notin ran, go |-> "PRODUCT_EXPERT"],
           [when |-> email /\ "EMAIL_WRITER" \notin ran, go |-> "EMAIL_WRITER"],
           [when |-> strategy /\ "SEGMENTATION_AGENT" \notin ran, go |-> "SEGMENTATION_AGENT"],
           [when |-> product /\ ~email /\ "PRODUCT_EXPERT" \notin ran, go |-> "PRODUCT_EXPERT"],
           [when |-> "SQL_AGENT" \notin ran, go |-> "SQL_AGENT"],
           [when |-> TRUE, go |-> "COMPLETE"] >>
      first == CHOOSE i \in 1..8 : rules[i].when /\ \A k \in 1..(i - 1) : ~rules[k].when
  IN rules[first].go

\* C10: the supervisor's decision is the first matching rule of the priority
\* list, and the terminal rule marks the turn complete.
C10_DecisionIsFirstMatchingRule ==
  [][ pc = "supervisor" =>
        /\ state'.next_agent = Some(C10_FirstMatchingRule(state))
        /\ C10_FirstMatchingRule(state) = "COMPLETE" => state'.is_complete ]_vars

\* C10 witness: rule 2 chose the data-viz agent for a request with a data need
\* whose SQL agent had run and left rows, ahead of the email rules.
C10_Witness ==
  /\ state.next_agent = Some("DATAVIZ_AGENT")
  /\ state.leads_data # None
  /\ needs_sql_of(first_human(state.messages))
  /\ needs_email_of(first_human(state.messages))

\* The request matches no trigger keyword of any responder.
no_trigger(user_request) ==
  LET needs == request_intents[user_request]
  IN ~needs.needs_sql /\ ~needs.needs_viz /\ ~needs.needs_email
     /\ ~needs.needs_product /\ ~needs.needs_strategy

\* C11: for a request that matches no trigger keyword, the turn is the
\* supervisor dispatching the SQL agent once as the default, then the terminal
\* decision; no other responder runs, whatever the pipeline returns and whether
\* or not a clarification answer was supplied.
C11_DefaultFallbackOnly ==
  no_trigger(first_human(state.messages)) =>
    /\ \A r \in Responders \ {"sql_agent"} : runs(r) = 0
    /\ runs("sql_agent") <= 1
    /\ pc = "__end__" => runs("sql_agent") = 1 /\ runs("supervisor") = 2

\* C12: within a turn every step leaves completed_agents unchanged or appends
\* one identifier, and every invocation of run_team_query, a clarification
\* resume included, starts with completed_agents empty.
C12_CompletedAgentsOnlyGrows ==
  /\ [](events = <<>> => state.completed_agents = <<>>)
  /\ [][ /\ pc # "__end__" =>
              \/ state'.completed_agents = state.completed_agents
              \/ \E i \in 1..Len(AgentNames) :
                   state'.completed_agents = Append(state.completed_agents, AgentNames[i])
         /\ pc = "__end__" => state'.completed_agents = <<>> ]_vars

\* C12 witness: a resumed turn in which three agents were recorded.
C12_Witness ==
  /\ state.user_clarification # None
  /\ Len(state.completed_agents) >= 3

\* C13: no identifier appears twice in completed_agents, and the product
\* expert, which two rules can choose, is dispatched at most once in a turn.
C13_NoAgentTwiceInCompleted ==
  /\ \A i, j \in 1..Len(state.completed_agents) :
       state.completed_agents[i] = state.completed_agents[j] => i = j
  /\ runs("product_expert") <= 1

\* C13 witness: the product expert ran for an email request and the email
\* writer ended the turn.
C13_Witness ==
  /\ pc = "__end__"
  /\ runs("product_expert") = 1
  /\ in_list("PRODUCT_EXPERT", state.completed_agents)
  /\ in_list("EMAIL_WRITER", state.completed_agents)

\* C14: once the email writer has run, no node runs after it in that turn: the
\* turn is at its end node and the email writer is the last node that ran.
C14_EmailWriterIsTerminal ==
  \A i \in EventsOf("node") :
    events[i].name = "email_writer" =>
      /\ pc = "__end__"
      /\ \A j \in EventsOf("node") : j <= i

\* C14 witness: the email writer ended a turn in which the SQL agent had run.
C14_Witness ==
  /\ pc = "__end__"
  /\ runs("email_writer") = 1
  /\ runs("sql_agent") = 1
  /\ state.email_draft # None

\* C15: leads_data is written only by the SQL agent, which runs at most once in
\* a turn and finds leads_data empty; the supervisor and the other four
\* responders leave leads_data as it is.
C15_LeadsDataWrittenOnceBySql ==
  [][ /\ pc \in {"supervisor", "dataviz_agent", "segmentation_agent", "product_expert",
                 "email_writer"} => state'.leads_data = state.leads_data
      /\ pc = "sql_agent" => runs("sql_agent") = 0 /\ state.leads_data = None ]_vars

\* C15 witness: the rows of the SQL agent are still there after the data-viz
\* agent and the email writer ran.
C15_Witness ==
  /\ pc = "__end__"
  /\ state.leads_data # None
  /\ runs("dataviz_agent") >= 1
  /\ runs("email_writer") = 1

\* C16: a decision of the supervisor changes no field of the state other than
\* next_agent, current_step and completed_agents.
C16_DecisionOnlyRoutes ==
  [][ pc = "supervisor" =>
        \A k \in DOMAIN state \ {"next_agent", "current_step", "completed_agents"} :
          state'[k] = state[k] ]_vars

\* C17: when a run has a clarification answer, the question the SQL agent plans
\* for begins with the original request and goes on with the annotation that
\* holds the chosen option; the request is not dropped or replaced.
C17_ResumeKeepsRequest ==
  \A i \in EventsOf("question") :
    state.user_clarification # None =>
      LET question == events[i].text
          request == first_human(state.messages)
          option == state.user_clarification[1]
      IN /\ Len(question) > Len(request) + Len(option)
         /\ SubSeq(question, 1, Len(request)) = request
         /\ str_in(option, SubSeq(question, Len(request) + 1, Len(question)))

\* C17 witness: the SQL agent planned for a request resumed with the first
\* option of the web-search clarification.
C17_Witness ==
  /\ EventsOf("question") # {}
  /\ state.user_clarification = Some(options_web[1])
  /\ first_human(state.messages) # <<>>

\* C18: when an interrupted turn is resumed with a clarification answer, the
\* state of the resumed run starts with the messages of the interrupted turn,
\* in their order.
C18_ResumeKeepsMessageLog ==
  [][ pc = "__end__" /\ state.needs_clarification /\ state'.user_clarification # None =>
        /\ Len(state'.messages) >= Len(state.messages)
        /\ SubSeq(state'.messages, 1, Len(state.messages)) = state.messages ]_vars

\* The class detect_invalid_response gives each generated text of the model
\* ("" when the text passes).
response_class ==
  [t \in {str_strip(r) : r \in PlanResponses \cup SqlResponses} |->
     detect_invalid_response(t).type]

Last(seq) == seq[Len(seq)]

\* The SQL agent has just returned.
sql_agent_returned ==
  /\ events # <<>>
  /\ Last(events).ev \in {"llm", "validate", "execute"}
  /\ Last(events).name \in {"plan", "generate", "sql_agent"}

\* The SQL agent has just returned because its last generated text failed the
\* sanity check.
sanity_check_failed ==
  /\ sql_agent_returned
  /\ Last(events).ev = "llm"
  /\ response_class[Last(events).text] # ""

\* Every (failure class, question) pair the pipeline can return after a failed
\* sanity check, at the plan stage or at the generate stage.
SanityFailures ==
  { [class |-> response_class[Last(r.events).text],
     question |-> r.update.clarification_question] :
    r \in { x \in sql_agent_returns[TRUE] \cup sql_agent_returns[FALSE] :
              Last(x.events).ev = "llm" /\ response_class[Last(x.events).text] # "" } }

\* C19: when the plan or the generated text fails the sanity check, the
\* pipeline returns a clarification request whose question belongs to that
\* failure class alone, with 2 or 3 options; no query is produced or executed
\* and the turn is not complete.
C19_SanityFailureAsksClassQuestion ==
  sanity_check_failed =>
    /\ state.needs_clarification
    /\ state.clarification_question # None
    /\ \A f \in SanityFailures :
         f.question = state.clarification_question =>
           f.class = response_class[Last(events).text]
    /\ state.clarification_options # None
    /\ Len(state.clarification_options[1]) \in {2, 3}
    /\ state.sql_query = None
    /\ state.leads_data = None
    /\ EventsOf("validate") = {} /\ EventsOf("execute") = {}
    /\ ~state.is_complete

\* The plans of the model that contain a web-lookup indicator phrase.
plan_has_web_indicator ==
  [p \in {str_strip(r) : r \in PlanResponses} |-> any_in(web_indicators, str_lower(p))]

\* C20: a plan that contains a web-lookup indicator phrase is answered as a
\* web search, whatever else it contains: the pipeline returns the web-search
\* clarification with a non-empty option list and executes no query.
C20_WebIndicatorTakesPrecedence ==
  sql_agent_returned =>
    \A i \in EventsOf("llm") :
      events[i].name = "plan" /\ plan_has_web_indicator[events[i].text] =>
        /\ Last(events) = events[i]
        /\ Last(state.messages).kind = "clarify_web"
        /\ state.needs_clarification
        /\ state.clarification_question # None
        /\ state.clarification_options # None
        /\ Len(state.clarification_options[1]) >= 1
        /\ state.leads_data = None
        /\ EventsOf("execute") = {}

\* C20 witness: the pipeline returned the web-search clarification for a plan
\* that has a web-lookup phrase and a gaming word.
C20_Witness ==
  /\ sql_agent_returned
  /\ Last(events).text = str_strip(plan_web_gaming)
  /\ Last(state.messages).kind = "clarify_web"
  /\ state.clarification_options = Some(options_web)

\* The events of one stage of the SQL agent's run.
StageEvents(ev, name) ==
  {i \in 1..Len(events) : events[i].ev = ev /\ events[i].name = name}

\* C21: in a run of the SQL agent the stages come in the order plan, generate,
\* validate, execute, each at most once; the generate call is made only for a
\* plan that passed the sanity check, the validation only for a generated text
\* that passed it, and the execution only after a passed validation.
C21_StagesInOrder ==
  LET plans == StageEvents("llm", "plan")
      gens == StageEvents("llm", "generate")
      vals == StageEvents("validate", "sql_agent")
      execs == StageEvents("execute", "sql_agent")
  IN /\ Cardinality(plans) <= 1 /\ Cardinality(gens) <= 1
     /\ Cardinality(vals) <= 1 /\ Cardinality(execs) <= 1
     /\ \A g \in gens : \E p \in plans : p < g /\ response_class[events[p].text] = ""
     /\ \A v \in vals : \E g \in gens : g < v /\ response_class[events[g].text] = ""
     /\ \A e \in execs : \E v \in vals : v < e /\ events[v].ok

\* C21 witness: a run went through all four stages.
C21_Witness ==
  /\ StageEvents("llm", "plan") # {}
  /\ StageEvents("llm", "generate") # {}
  /\ StageEvents("validate", "sql_agent") # {}
  /\ StageEvents("execute", "sql_agent") # {}
  /\ state.leads_data # None

\* C22: when the data store raises for a validated query, the SQL agent returns
\* a result that quotes the error, asks for a clarification with a non-empty
\* option list, has no rows and is not complete; the turn goes on and reaches
\* its end node.
C22_ExecutionErrorIsReported ==
  /\ [](sql_agent_returned /\ Last(events).ev = "execute" /\ ~Last(events).ok =>
          /\ pc = "supervisor"
          /\ Last(state.messages).kind = "execution_error"
          /\ Last(state.messages).note # ""
          /\ state.needs_clarification
          /\ state.clarification_options # None
          /\ Len(state.clarification_options[1]) >= 1
          /\ state.leads_data = None
          /\ ~state.is_complete)
  /\ ((\E i \in EventsOf("execute") : ~events[i].ok) ~> (pc = "__end__"))

\* C22 witness: a turn ended after the data store had raised.
C22_Witness ==
  /\ pc = "__end__"
  /\ \E i \in EventsOf("execute") : ~events[i].ok
  /\ \E m \in 1..Len(state.messages) : state.messages[m].kind = "execution_error"

\* The query ran and returned no rows.
empty_result ==
  /\ \E i \in EventsOf("execute") : events[i].ok
  /\ \E m \in 1..Len(state.messages) :
       state.messages[m].tag = "[SQL Agent]" /\ state.messages[m].kind = "no_data"

\* C23: a query that returns no rows is reported without an error and without
\* a clarification request, the plan and the query text are kept, and the turn
\* goes back to the supervisor and on to a complete end.
C23_EmptyResultIsNormal ==
  /\ [](sql_agent_returned /\ empty_result =>
          /\ pc = "supervisor"
          /\ Last(state.messages).note = ""
          /\ ~state.needs_clarification
          /\ state.clarification_options = None
          /\ state.sql_plan # None
          /\ state.sql_query = Some(Last(events).text)
          /\ state.leads_data = None)
  /\ (empty_result ~> (pc = "__end__" /\ state.is_complete))

\* C23 witness: a turn ended complete after a query that returned no rows.
C23_Witness ==
  /\ pc = "__end__"
  /\ empty_result
  /\ state.is_complete
  /\ ~state.needs_clarification

\* The turn is the scenario's: the request is "Top 10 converted leads and their
\* Lead Source breakdown", asked without a clarification answer, and the query
\* returned rows with a Lead_Source column.
breakdown_scenario ==
  /\ first_human(state.messages) = request_breakdown
  /\ state.user_clarification = None
  /\ state.leads_data # None
  /\ in_list("Lead_Source", state.leads_data[1].columns)

\* C26: in the scenario the SQL agent runs, then the data-viz agent runs once,
\* with needs_visualization true because of "breakdown", and the turn ends
\* complete with the preview of the rows and a chart payload on Lead_Source.
C26_BreakdownScenario ==
  /\ breakdown_scenario /\ pc = "dataviz_agent" => state.needs_visualization
  /\ breakdown_scenario /\ pc = "__end__" =>
       /\ runs("sql_agent") = 1
       /\ runs("dataviz_agent") = 1
       /\ \A i, j \in EventsOf("node") :
            events[i].name = "sql_agent" /\ events[j].name = "dataviz_agent" => i < j
       /\ state.needs_visualization
       /\ state.is_complete
       /\ \E m \in 1..Len(state.messages) :
            /\ state.messages[m].tag = "[SQL Agent]"
            /\ state.messages[m].kind = "data"
            /\ state.messages[m].nums = <<state.leads_data[1].nrows,
                                          Min(state.leads_data[1].nrows, PreviewRows)>>
       /\ \E m \in 1..Len(state.messages) :
            /\ state.messages[m].tag = "[Data Viz Agent]"
            /\ state.messages[m].chart # None
            /\ state.messages[m].chart[1].column = "Lead_Source"

\* C27: when the data-viz agent runs without rows, it appends one "no data"
\* notice without a chart payload, makes no text-generation call, changes no
\* field other than messages and is_complete, and the turn goes back to the
\* supervisor.
C27_NoDataNotice ==
  [][ pc = "dataviz_agent" /\ state.leads_data = None =>
        /\ Len(state'.messages) = Len(state.messages) + 1
        /\ SubSeq(state'.messages, 1, Len(state.messages)) = state.messages
        /\ state'.messages[Len(state'.messages)].tag = "[Data Viz Agent]"
        /\ state'.messages[Len(state'.messages)].kind = "no_data"
        /\ state'.messages[Len(state'.messages)].chart = None
        /\ \A k \in DOMAIN state \ {"messages", "is_complete"} : state'[k] = state[k]
        /\ events' = Append(events, Event("node", "dataviz_agent", <<>>, TRUE))
        /\ pc' = "supervisor" ]_vars

\* C27 witness: the data-viz agent has just returned its notice in a turn
\* without rows.
C27_Witness ==
  /\ pc = "supervisor"
  /\ state.leads_data = None
  /\ events # <<>>
  /\ Last(events) = Event("node", "dataviz_agent", <<>>, TRUE)
  /\ Last(state.messages).kind = "no_data"

\* C28: every chart of the data-viz agent is keyed on the column the fixed
\* priority order Segment, Lead_Source, Country, Occupation selects from the
\* rows; the pre-aggregated grouping column is only a fallback when none of
\* them is present, and the first text-typed column otherwise.
C28_ChartColumnByPriority ==
  LET priority_column(df) ==
        IF in_list("Segment", df.columns) THEN Some("Segment")
        ELSE IF in_list("Lead_Source", df.columns) THEN Some("Lead_Source")
        ELSE IF in_list("Country", df.columns) THEN Some("Country")
        ELSE IF in_list("Occupation", df.columns) THEN Some("Occupation")
        ELSE IF in_list("count", df.columns)
             THEN IF Len(df.columns) > 1
                  THEN Some(SelectSeq(df.columns, LAMBDA c : c # "count")[1])
                  ELSE Some(df.columns[1])
        ELSE IF df.str_cols # <<>> THEN Some(df.str_cols[1])
        ELSE None
  IN \A i \in 1..Len(state.messages) :
        /\ state.messages[i].type = "ai"
        /\ state.messages[i].tag = "[Data Viz Agent]"
        /\ state.messages[i].chart # None
        /\ state.leads_data # None
        => Some(state.messages[i].chart[1].column) = priority_column(state.leads_data[1])

\* C29: within a turn the message log is append-only and ordered: its first
\* entry is the user's request, every agent run appends exactly one entry
\* after the existing ones, the supervisor appends none, and no step removes,
\* reorders or rewrites an entry.
C29_MessageLogAppendOnly ==
  /\ [](/\ Len(state.messages) >= 1
        /\ state.messages[1].type = "human"
        /\ state.messages[1].parts[1] \in Requests)
  /\ [][ /\ pc = "supervisor" => state'.messages = state.messages
         /\ pc \in Responders =>
              /\ Len(state'.messages) = Len(state.messages) + 1
              /\ SubSeq(state'.messages, 1, Len(state.messages)) = state.messages
              /\ state'.messages[Len(state'.messages)].type = "ai" ]_vars

\* C29 witness: a turn has ended after at least three agents appended their
\* entries behind the user's request.
C29_Witness ==
  /\ pc = "__end__"
  /\ Len(state.messages) >= 4
  /\ state.messages[1].type = "human"
  /\ \A i \in 2..Len(state.messages) : state.messages[i].type = "ai"

\* Whether a plan of the model starts with the CANNOT_ANSWER marker (each plan
\* is scanned once).
plan_is_cannot_answer ==
  [p \in {str_strip(r) : r \in PlanResponses} |-> str_startswith(str_upper(p), kw_CANNOT_ANSWER)]

\* C30: when the plan is the CANNOT_ANSWER marker and passes the sanity check,
\* the SQL agent stops after the plan stage: no generate call, no validation,
\* no execution, leads_data left empty, the marker text kept as sql_plan, and
\* the marker reported with needs_clarification false; a CANNOT_ANSWER plan that
\* fails the sanity check yields a clarification request instead.
C30_CannotAnswerStopsAfterPlan ==
  sql_agent_returned =>
    \A i \in StageEvents("llm", "plan") :
       plan_is_cannot_answer[events[i].text] =>
         /\ i = Len(events)
         /\ StageEvents("llm", "generate") = {}
         /\ EventsOf("validate") = {}
         /\ EventsOf("execute") = {}
         /\ state.leads_data = None
         /\ IF response_class[events[i].text] = ""
            THEN /\ state.sql_plan = Some(events[i].text)
                 /\ ~state.needs_clarification
                 /\ state.clarification_options = None
                 /\ state.is_complete
                 /\ Last(state.messages).tag = "[SQL Agent]"
                 /\ Last(state.messages).kind = "cannot_answer"
                 /\ Last(state.messages).parts = <<events[i].text>>
            ELSE /\ state.needs_clarification
                 /\ state.clarification_options # None
                 /\ state.sql_plan = None
                 /\ ~state.is_complete
                 /\ Last(state.messages).kind \in {"clarify_gaming", "clarify_web", "clarify_not_sql"}

\* C30 witness: the SQL agent has just reported a CANNOT_ANSWER plan that
\* passed the sanity check.
C30_Witness ==
  /\ sql_agent_returned
  /\ Last(events) = Event("llm", "plan", str_strip(plan_cannot), TRUE)
  /\ response_class[str_strip(plan_cannot)] = ""
  /\ state.sql_plan = Some(str_strip(plan_cannot))
  /\ Last(state.messages).kind = "cannot_answer"


\* The SQL agent has just asked for clarification on a CANNOT_ANSWER plan that
\* failed the sanity check.
cannot_answer_rejected ==
  /\ sql_agent_returned
  /\ Last(events) = Event("llm", "plan", str_strip(plan_cannot_gaming), TRUE)
  /\ plan_is_cannot_answer[str_strip(plan_cannot_gaming)]
  /\ Last(state.messages).kind = "clarify_gaming"

\* The turn has failed: an exception left the graph.
turn_failed ==
  \/ pc = "__raised__"
  \/ pc = "idle" /\ Last(session.messages).kind = "error"

\* C24: a failed text-generation call in the data-viz agent, the segmentation
\* agent or the product expert never fails the turn: the agent still appends
\* its message; only a failed call of the SQL agent's plan or generate stage
\* fails the turn.
C24_LlmFailureDegrades ==
  LET tag_of_call == [dataviz_agent |-> "[Data Viz Agent]",
                      segmentation_agent |-> "[Segmentation Analyst]",
                      product_expert |-> "[Product Expert]"]
  IN \A i \in EventsOf("llm") :
        ~events[i].ok =>
          /\ turn_failed => events[i].name \in {"plan", "generate"}
          /\ events[i].name \in DOMAIN tag_of_call =>
               /\ ~turn_failed
               /\ \E k \in 1..Len(state.messages) :
                     /\ state.messages[k].type = "ai"
                     /\ state.messages[k].tag = tag_of_call[events[i].name]

\* C25: when an exception ends a turn, the recorded history keeps the user's
\* request and every agent message appended before the failure, next to the
\* error.
C25_PartialLogRecorded ==
  pc = "idle" /\ turn_failed =>
    /\ \E e \in 1..Len(session.messages) :
          /\ session.messages[e].role = "user"
          /\ session.messages[e].parts = <<first_human(state.messages)>>
    /\ \A k \in 1..Len(state.messages) :
          state.messages[k].type = "ai" =>
            \E e \in 1..Len(session.messages) :
               \E j \in 1..Len(session.messages[e].parts) :
                  session.messages[e].parts[j] = display_content(state.messages[k])


\* C31: in every turn in which both the SQL agent and the data-viz agent run,
\* the SQL agent runs first: every run of the data-viz agent comes after a run
\* of the SQL agent.
C31_SqlBeforeDataviz ==
  runs("sql_agent") > 0 =>
    \A j \in EventsOf("node") :
       events[j].name = "dataviz_agent" =>
         \E i \in EventsOf("node") : events[i].name = "sql_agent" /\ i < j


\* C32: for a request that asks for an email and names the product, the
\* product expert has run whenever the email writer is started, so product_info
\* is set and is the product text the email writer uses; and when the request
\* also has a data keyword, the SQL agent has run before the email writer.
C32_ProductAndDataBeforeEmail ==
  LET needs == request_intents[first_human(state.messages)]
  IN needs.needs_email /\ needs.needs_product
       /\ (pc = "email_writer" \/ runs("email_writer") > 0) =>
         /\ runs("product_expert") >= 1
         /\ \A i, j \in EventsOf("node") :
               events[i].name = "product_expert" /\ events[j].name = "email_writer" => i < j
         /\ state.product_info = Some(product_str)
         /\ \A k \in 1..Len(state.messages) :
               state.messages[k].tag = "[Email Writer]" => state.messages[k].note = product_str
         /\ needs.needs_sql =>
               /\ runs("sql_agent") >= 1
               /\ \A i, j \in EventsOf("node") :
                     events[i].name = "sql_agent" /\ events[j].name = "email_writer" => i < j

\* C32 witness: a turn for a request with a data keyword, the product name and
\* an email wish has ended with the email written from the product expert's text.
C32_Witness ==
  LET needs == request_intents[first_human(state.messages)]
  IN /\ pc = "__end__"
     /\ needs.needs_email /\ needs.needs_product /\ needs.needs_sql
     /\ runs("sql_agent") = 1 /\ runs("product_expert") = 1 /\ runs("email_writer") = 1
     /\ Last(state.messages).tag = "[Email Writer]"
     /\ Last(state.messages).note = product_str


\* C33: when the SQL agent has returned, needs_visualization still has the
\* value the supervisor derived from the request when it dispatched the agent.
C33_FlagSurvivesPipeline ==
  sql_agent_returned =>
    state.needs_visualization = request_intents[first_human(state.messages)].needs_viz


\* C34: completed_agents holds the identifier of every agent that has been
\* started in the turn, whether the supervisor or route_after_sql started it.
C34_StartedAgentsAreCompleted ==
  LET identifier == [sql_agent |-> "SQL_AGENT",
                     dataviz_agent |-> "DATAVIZ_AGENT",
                     segmentation_agent |-> "SEGMENTATION_AGENT",
                     product_expert |-> "PRODUCT_EXPERT",
                     email_writer |-> "EMAIL_WRITER"]
  IN /\ \A i \in EventsOf("node") :
          events[i].name \in Responders =>
            in_list(identifier[events[i].name], state.completed_agents)
     /\ pc \in Responders => in_list(identifier[pc], state.completed_agents)


\* C35: in a turn started by run_team_query current_step never exceeds 6, five
\* dispatching decisions and the terminal one, so the turn never ends because
\* of the step ceiling.
C35_StepsAtMostSix ==
  /\ state.current_step <= 6
  /\ state.current_step <= StepCeiling
  /\ state.current_step = Cardinality({i \in EventsOf("node") : events[i].name = "supervisor"})
  /\ pc = "__end__" /\ Last(events).name = "supervisor" => state.next_agent = Some("COMPLETE")


\* C35 witness: a turn has ended by the terminal decision after four
\* dispatching decisions, the longest turn there is.
C35_Witness ==
  /\ pc = "__end__"
  /\ state.current_step = 5
  /\ state.next_agent = Some("COMPLETE")
  /\ Len(state.completed_agents) = 4


\* C36: the state a turn returns has is_complete = true, whether the turn was
\* ended by the supervisor's terminal decision or by the email writer.
C36_ReturnedStateIsComplete ==
  pc = "__end__" =>
    /\ state.is_complete
    /\ \/ Last(events).name = "supervisor" /\ state.next_agent = Some("COMPLETE")
       \/ Last(events).name = "email_writer" /\ state.next_agent = Some("EMAIL_WRITER")

\* C36 witness: a turn in which the SQL agent asked for a clarification has
\* been ended by the supervisor's terminal decision.
C36_Witness ==
  /\ pc = "__end__"
  /\ state.is_complete
  /\ state.needs_clarification
  /\ Last(events).name = "supervisor"


\* C37: for a request that asks for an email the segmentation agent is never
\* dispatched, even when the request also asks for a strategy: the email
\* writer is dispatched first and ends the turn.
C37_NoSegmentationWithEmail ==
  request_intents[first_human(state.messages)].needs_email =>
    /\ pc # "segmentation_agent"
    /\ runs("segmentation_agent") = 0
    /\ ~in_list("SEGMENTATION_AGENT", state.completed_agents)
    /\ state.segment_analysis = None
    /\ runs("email_writer") > 0 => pc = "__end__"

\* C37 witness: a turn for a request that asks for an email and a strategy
\* has ended with the email writer, without the segmentation agent.
C37_Witness ==
  LET needs == request_intents[first_human(state.messages)]
  IN /\ pc = "__end__"
     /\ needs.needs_email /\ needs.needs_strategy
     /\ runs("email_writer") = 1
     /\ runs("segmentation_agent") = 0


\* C39: when the data-viz agent has rows, its message carries a chart payload
\* exactly when the request has a chart word (chart, graph, plot, distribution,
\* breakdown, visualiz) or mentions pie or bar, and a column to summarize was
\* chosen; the payload's type is pie exactly when the request mentions pie and
\* bar otherwise, and the payload is the message's chart marker.
C39_ChartPayload ==
  \A k \in 1..Len(state.messages) :
     /\ state.messages[k].type = "ai"
     /\ state.messages[k].tag = "[Data Viz Agent]"
     /\ state.messages[k].kind = "analysis"
     => LET msg == state.messages[k]
            wants == chart_wants[first_human(state.messages)]
            asked == wants.wants_chart \/ wants.wants_pie \/ wants.wants_bar
        IN /\ state.leads_data # None
           /\ state.leads_data[1].nrows > 0
           /\ msg.chart # None <=> asked /\ chart_column(state.leads_data[1]) # None
           /\ msg.chart # None =>
                /\ msg.chart[1].type = "pie" <=> wants.wants_pie
                /\ msg.chart[1].type = "bar" <=> ~wants.wants_pie
                /\ Some(msg.chart[1].column) = chart_column(state.leads_data[1])
                /\ display_content(msg).chart = None

\* C39 witness: the data-viz agent has answered a request that mentions pie,
\* and no other chart word, with a pie chart.
C39_Witness ==
  /\ first_human(state.messages) = request_pie
  /\ ~chart_wants[request_pie].wants_chart
  /\ Last(state.messages).tag = "[Data Viz Agent]"
  /\ Last(state.messages).chart # None
  /\ Last(state.messages).chart[1].type = "pie"

\* The data-viz agent has analysed rows without a chart: the request has no
\* chart word, or the rows have no column to summarize.
analysis_without_chart ==
  /\ Last(state.messages).tag = "[Data Viz Agent]"
  /\ Last(state.messages).kind = "analysis"
  /\ Last(state.messages).chart = None


\* C38: a stored clarification choice is consumed by exactly one later
\* submission: that run of the workflow gets the stored request and the
\* stored option, not the text just submitted, and both are cleared, so that
\* the next run gets the submitted text and no clarification answer; a choice
\* is stored only by a click on an option of the last response.
C38_StoredChoiceConsumedOnce ==
  /\ [](pc # "idle" => session.pending_clarification = None /\ session.original_prompt = None)
  /\ [][ /\ pc = "idle" /\ pc' = "supervisor" =>
              /\ session'.pending_clarification = None
              /\ session'.original_prompt = None
              /\ IF session.pending_clarification # None
                 THEN /\ session.original_prompt # None
                      /\ state' = initial_state(session.original_prompt[1],
                                                session.pending_clarification)
                 ELSE /\ state' = initial_state(Last(session'.messages).parts[1], None)
         /\ session'.pending_clarification # session.pending_clarification
              /\ session'.pending_clarification # None =>
              /\ pc = "idle" /\ pc' = "idle"
              /\ session.pending_clarification = None
              /\ state.clarification_options # None
              /\ in_list(session'.pending_clarification[1], state.clarification_options[1])
              /\ session'.original_prompt = Some(first_human(state.messages)) ]_vars

\* C38 witness: the run for a second prompt has ended; it was made with the
\* request and the option stored by a click after the first response, not with
\* the text just submitted, and nothing is stored any more.
C38_Witness ==
  /\ pc = "__end__"
  /\ turns = 2
  /\ state.user_clarification # None
  /\ state.user_clarification[1] \in AllOptions
  /\ first_human(state.messages) = session.messages[1].parts[1]
  /\ first_human(state.messages) # Last(session.messages).parts[1]
  /\ Last(session.messages).role = "user"
  /\ session.pending_clarification = None
  /\ session.original_prompt = None

\* A later prompt was run as submitted, without a clarification answer: no
\* choice was stored.
later_prompt_as_submitted ==
  /\ pc = "__end__"
  /\ turns = 2
  /\ state.user_clarification = None
  /\ first_human(state.messages) = Last(session.messages).parts[1]
====
